---- MODULE Spec2Model ----
(***************************************************************************)
(* Resilient event orchestration gateway: ingestion -> BullMQ main queue   *)
(* -> worker (processEvent) -> MongoDB ledger, with retry, dead letter     *)
(* queue and replay.                                                       *)
(*                                                                         *)
(* Every `await` of the source is one atomic step of the model: a ledger   *)
(* query or update, a queue command, the routing call.  Steps of different *)
(* jobs, handlers and HTTP requests interleave freely.                     *)
(***************************************************************************)
EXTENDS Integers, Sequences, FiniteSets, TLC

VARIABLES
    jobs,      \* main queue 'events': every job ever added, in order of creation
    dlq,       \* queue 'events-dlq': every entry ever added, in order of creation
    ledger,    \* the Event collection: documents in order of insertion
    replays,   \* the replayDLQJobs calls in progress
    autoId,    \* BullMQ's id counter of the main queue (jobs added without jobId)
    created,   \* history: per eventId, createEvent calls that returned the new row
    routeOk,   \* history: per eventId, successful Routing Collaborator calls
    toRouted,  \* history: per eventId, status changes into ROUTED
    toFailed,  \* history: per eventId, markEventFailed updates of its row
    dups,      \* history: per eventId, an add with that jobId was ignored while the
               \* job stored under it was waiting, active or delayed
    calls,     \* SpecLedger: the createEvent calls made and what each returned
    retry,     \* SpecBackoff: one job under a retry policy and the delays applied to it
    answer,    \* SpecIngest: the last request ingestEvent handled and its response
    down,      \* SpecShutdown: how far gracefulShutdown has come
    rate,      \* SpecRate: the clock, the worker's rate limiter and the attempts started
    hmac,      \* SpecHmac: a signed request and what validateHMAC said of it
    workers    \* SpecWorker: the Worker instances, the module's worker reference and the stopWorker calls

vars == <<jobs, dlq, ledger, replays, autoId, created, routeOk, toRouted, toFailed, dups, calls, retry, answer, down, rate, hmac, workers>>

----------------------------------------------------------------------------
(* Bounds of the model *)

MaxJobs == 3        \* jobs ever added to the main queue
MaxAttempts == 2    \* MAX_RETRY_ATTEMPTS of the run
Concurrency == 2    \* QUEUE_CONCURRENCY of the run
MaxReplays == 2     \* replayDLQJobs calls in progress at once
MaxCallers == 4     \* createEvent calls made by the callers of SpecLedger
MaxStranded == 2    \* DLQ entries left by earlier exhausted jobs in SpecReplay

EventIds == {"e1"}
Types == {"ORDER_CREATED"}
Payloads == {"p1"}
CorrelationIds == {"c1"}
NoValue == "null"

RoutingError == "Routing service temporarily unavailable"
LedgerError == "MongoNetworkError"

\* outside SpecBackoff no policy job is followed
noRetry == [attempts |-> 0, delay |-> 0, attemptsMade |-> 0, delays |-> <<>>, state |-> "none"]

\* outside SpecRate time is not followed
noRate == [now |-> 0, count |-> 0, expires |-> 0, active |-> 0, starts |-> <<>>]

\* SpecWorker: Worker instances ever constructed, startWorker calls, and callers of
\* stopWorker (the SIGTERM and the SIGINT listener each call gracefulShutdown)
MaxWorkers == 3
MaxStartCalls == 4
Stoppers == {"SIGTERM", "SIGINT"}

\* after main(): startWorker() has constructed the first Worker and kept it in
\* the module variable; no stopWorker call is in progress
mainWorker ==
    [worker |-> 1, inst |-> <<"open">>, stop |-> [c \in Stoppers |-> 0],
     returned |-> 1, starts |-> 1]

\* outside SpecHmac no signature is followed
noHmac == [object |-> "", form |-> "none", secret |-> "", signature |-> <<>>, result |-> "none"]

\* outside SpecIngest no response is followed
noAnswer ==
    [req |-> [rawBody |-> FALSE, sigValid |-> FALSE, eventId |-> "", type |-> "",
              payload |-> "", correlationId |-> "c1"],
     secret |-> FALSE, up |-> FALSE, status |-> 0, added |-> FALSE]

----------------------------------------------------------------------------
(* Small helpers *)

RECURSIVE SeqSum(_)
SeqSum(s) == IF s = <<>> THEN 0 ELSE Head(s) + SeqSum(Tail(s))

Indices(s) == 1..Len(s)

\* the ascending sequence of the elements of a finite set of integers
RECURSIVE SortedSeq(_)
SortedSeq(S) ==
    IF S = {} THEN <<>>
    ELSE LET m == CHOOSE x \in S : \A y \in S : x <= y
         IN  <<m>> \o SortedSeq(S \ {m})

----------------------------------------------------------------------------
(* Ledger: repository.ts over the Event model *)

\* EventJobData
JobData(e, t, p, c) == [eventId |-> e, type |-> t, payload |-> p, correlationId |-> c]

AllJobData == {JobData(e, t, p, c) : e \in EventIds, t \in Types, p \in Payloads,
                                     c \in CorrelationIds}

Rows(l, e) == {i \in Indices(l) : l[i].eventId = e}

\* Event.findOne({ eventId }): the first matching document, 0 when there is none
findOne(l, e) == IF Rows(l, e) = {} THEN 0 ELSE CHOOSE i \in Rows(l, e) : \A k \in Rows(l, e) : i <= k

eventExists(l, e) == findOne(l, e) # 0

\* getEventById(...)?.status
statusOf(l, e) == IF findOne(l, e) = 0 THEN NoValue ELSE l[findOne(l, e)].status

newEvent(data) ==
    [eventId |-> data.eventId, type |-> data.type, payload |-> data.payload,
     correlationId |-> data.correlationId, status |-> "ROUTING_PENDING",
     attempts |-> 0, error |-> NoValue, processedAt |-> NoValue]

\* the unique index on eventId: save() fails with code 11000 on a duplicate
duplicateKey(l, data) == Rows(l, data.eventId) # {}

\* mutant: the collection without its unique index, save() always inserts
createEventLedger_NoUniqueIndex(l, data) == Append(l, newEvent(data))

\* createEvent: the ledger after the call, and whether the new row is returned
createEventLedger(l, data) == IF duplicateKey(l, data) THEN l ELSE Append(l, newEvent(data))
createEventReturnsRow(l, data) == ~duplicateKey(l, data)

\* each update below is one findOneAndUpdate({ eventId }, ...) without upsert: it
\* changes the first matching document, whatever its status, and nothing when
\* there is none

\* mutant: the attempt counted twice
incrementEventAttempts_Twice(l, e) ==
    IF findOne(l, e) = 0 THEN l ELSE [l EXCEPT ![findOne(l, e)].attempts = @ + 2]

\* $inc: { attempts: 1 }
incrementEventAttempts(l, e) ==
    IF findOne(l, e) = 0 THEN l ELSE [l EXCEPT ![findOne(l, e)].attempts = @ + 1]

\* $set: { status: 'FAILED', error }
markEventFailed(l, e, err) ==
    IF findOne(l, e) = 0 THEN l
    ELSE [l EXCEPT ![findOne(l, e)].status = "FAILED", ![findOne(l, e)].error = err]

\* mutant: the error of an earlier failure cleared on success
markEventRouted_ClearsError(l, e) ==
    IF findOne(l, e) = 0 THEN l
    ELSE [l EXCEPT ![findOne(l, e)].status = "ROUTED", ![findOne(l, e)].processedAt = "date",
                   ![findOne(l, e)].error = NoValue]

\* $set: { status: 'ROUTED', processedAt: new Date() }
markEventRouted(l, e) ==
    IF findOne(l, e) = 0 THEN l
    ELSE [l EXCEPT ![findOne(l, e)].status = "ROUTED", ![findOne(l, e)].processedAt = "date"]

----------------------------------------------------------------------------
(* Main queue: queue.ts over BullMQ *)

Outstanding == {"waiting", "active", "delayed"}
Finished == {"completed", "failed"}

\* a job as Queue.add stores it; opts.attempts comes from defaultJobOptions
newJob(id, name, data) ==
    [id |-> id, name |-> name, data |-> data, state |-> "waiting", attemptsMade |-> 0,
     pc |-> "none", exists |-> FALSE, startStatus |-> NoValue, h |-> "none",
     err |-> NoValue]

\* the job hash of that id is still stored (in any state)
jobIdTaken(q, id) == \E i \in Indices(q) : q[i].id = id /\ q[i].state # "removed"

\* a job stored under that id is waiting, active or delayed
jobIdOutstanding(q, id) == \E i \in Indices(q) : q[i].id = id /\ q[i].state \in Outstanding

\* mutant: the add without the jobId option, nothing is recognised as a duplicate
addEventToQueue_NoJobId(q, data) == Append(q, newJob(data.eventId, "process-event", data))

\* eventQueue.add('process-event', data, { jobId: data.eventId }): BullMQ ignores an
\* add whose jobId is already stored
addEventToQueue(q, data) ==
    IF jobIdTaken(q, data.eventId) THEN q
    ELSE Append(q, newJob(data.eventId, "process-event", data))

\* eventQueue.add('retry', data): no jobId, the queue's counter gives the id
addRetryJob(q, data, n) == Append(q, newJob(ToString(n), "retry", data))

ActiveJobs == {j \in Indices(jobs) : jobs[j].state = "active"}

\* mutant: a failure taken as permanent, the job failed without a retry
retryable_FastPath(job) == FALSE

\* BullMQ on a failed attempt: retry with backoff while attempts remain
retryable(job) == job.attemptsMade + 1 < MaxAttempts

\* mutant: the handler's comparison strict, never true of a job BullMQ has failed
exhausted_Strict(attemptsMade) == attemptsMade > MaxAttempts

\* mutant: the handler takes the last retry for the final failure
exhausted_OffByOne(attemptsMade) == attemptsMade >= MaxAttempts - 1

\* 'failed' handler: const maxAttempts = job.opts.attempts || 5;
\* if (job.attemptsMade >= maxAttempts)
exhausted(attemptsMade) == attemptsMade >= (IF MaxAttempts # 0 THEN MaxAttempts ELSE 5)

\* the DeadLetterEntry addToDLQ receives from the 'failed' handler; `job` is the
\* position in jobs of the job it comes from (history)
dlqEntry(j, job, err) ==
    [originalJob |-> job.data, error |-> err, failedAt |-> "date",
     attempts |-> job.attemptsMade, state |-> "waiting", job |-> j]

----------------------------------------------------------------------------
(* Ingestion: controller.ts ingestEvent *)

AllRequests ==
    [rawBody : BOOLEAN, sigValid : BOOLEAN, eventId : EventIds \cup {""}, type : Types \cup {""},
     payload : Payloads \cup {""}, correlationId : CorrelationIds]

Defects(req) ==
    SeqSum(<<IF req.rawBody THEN 0 ELSE 1, IF req.sigValid THEN 0 ELSE 1,
             IF req.eventId = "" THEN 1 ELSE 0, IF req.type = "" THEN 1 ELSE 0,
             IF req.payload = "" THEN 1 ELSE 0>>)

\* the requests of the model: well-formed ones and those with a single defect
Requests == {req \in AllRequests : Defects(req) <= 1}

\* req.correlationId, set by the middleware of the app: the x-correlation-id
\* header of the request or, when it has none, a fresh crypto.randomUUID()
correlationIdOf(req) == IF req.correlationId = "" THEN "uuid" ELSE req.correlationId

\* the status ingestEvent answers with when HMAC_SECRET is configured and the queue
\* is available; sigValid is the result of validateHMAC
ingestStatus(req) ==
    IF ~req.rawBody THEN 400
    ELSE IF ~req.sigValid THEN 401
    ELSE IF req.eventId = "" \/ req.type = "" \/ req.payload = "" THEN 400
    ELSE 202

\* mutant: ingestion that looks the event up and records it before answering
ingestEvent_WithLedger(req) ==
    LET data == JobData(req.eventId, req.type, req.payload, correlationIdOf(req))
    IN  /\ IF ingestStatus(req) = 202
              THEN /\ Len(addEventToQueue(jobs, data)) <= MaxJobs
                   /\ jobs' = addEventToQueue(jobs, data)
                   /\ ledger' = createEventLedger(ledger, data)
              ELSE UNCHANGED <<jobs, ledger>>
        /\ UNCHANGED <<dlq, replays, autoId, created, routeOk, toRouted, toFailed, dups, calls, retry, answer, down, rate, hmac, workers>>

ingestEvent(req) ==
    LET data == JobData(req.eventId, req.type, req.payload, correlationIdOf(req))
    IN  /\ IF ingestStatus(req) = 202
              THEN /\ Len(addEventToQueue(jobs, data)) <= MaxJobs
                   /\ jobs' = addEventToQueue(jobs, data)
                   /\ dups' = IF jobIdOutstanding(jobs, data.eventId)
                                THEN [dups EXCEPT ![data.eventId] = TRUE] ELSE dups
              ELSE UNCHANGED <<jobs, dups>>
        /\ UNCHANGED <<dlq, ledger, replays, autoId, created, routeOk, toRouted, toFailed, calls, retry, answer, down, rate, hmac, workers>>

\* GET /events/:eventId: 404 when getEventById finds no row, else the row's fields
getEventStatus(l, e) == IF findOne(l, e) = 0 THEN 404 ELSE 200

----------------------------------------------------------------------------
(* Worker: worker.ts processor and 'failed' handler, service.ts processEvent *)

EventOf(j) == jobs[j].data.eventId

\* mutant: the worker takes every waiting job, whatever it has in progress
lease_NoConcurrencyCap(j) ==
    /\ jobs[j].state = "waiting"
    /\ jobs' = [jobs EXCEPT ![j].state = "active", ![j].pc = "exists",
                            ![j].startStatus = statusOf(ledger, EventOf(j))]
    /\ UNCHANGED <<dlq, ledger, replays, autoId, created, routeOk, toRouted, toFailed, dups, calls, retry, answer, down, rate, hmac, workers>>

\* mutant: one attempt at a time
lease_Serial(j) ==
    /\ ActiveJobs = {}
    /\ lease_NoConcurrencyCap(j)

\* the worker takes a waiting job while it has a free slot; processor calls
\* processEvent, which runs up to its first await
lease(j) ==
    /\ jobs[j].state = "waiting"
    /\ Cardinality(ActiveJobs) < Concurrency
    /\ jobs' = [jobs EXCEPT ![j].state = "active", ![j].pc = "exists",
                            ![j].startStatus = statusOf(ledger, EventOf(j))]
    /\ UNCHANGED <<dlq, ledger, replays, autoId, created, routeOk, toRouted, toFailed, dups, calls, retry, answer, down, rate, hmac, workers>>

\* the delay of a retried job runs out
promote(j) ==
    /\ jobs[j].state = "delayed"
    /\ jobs' = [jobs EXCEPT ![j].state = "waiting"]
    /\ UNCHANGED <<dlq, ledger, replays, autoId, created, routeOk, toRouted, toFailed, dups, calls, retry, answer, down, rate, hmac, workers>>

\* processEvent returned: the job is completed
completed(job) ==
    [job EXCEPT !.state = "completed", !.pc = "none", !.exists = FALSE,
                !.startStatus = NoValue]

\* processEvent threw: BullMQ counts the attempt and retries or fails the job; the
\* 'failed' handler starts and, for an exhausted job, goes on to handleFinalFailure
failed(job) ==
    LET made == job.attemptsMade + 1
    IN  [job EXCEPT !.attemptsMade = made, !.pc = "none", !.exists = FALSE,
                    !.startStatus = NoValue,
                    !.state = IF retryable(job) THEN "delayed" ELSE "failed",
                    !.h = IF exhausted(made) THEN "markFailed" ELSE "none"]

\* const exists = await eventExists(data.eventId)
stepExists(j) ==
    /\ jobs[j].pc = "exists"
    /\ LET ex == eventExists(ledger, EventOf(j))
       IN  jobs' = [jobs EXCEPT ![j].exists = ex,
                                ![j].pc = IF ex THEN "getById" ELSE "create"]
    /\ UNCHANGED <<dlq, ledger, replays, autoId, created, routeOk, toRouted, toFailed, dups, calls, retry, answer, down, rate, hmac, workers>>

\* mutant: no idempotent skip, every attempt processes the event
idempotentSkip_Never(l, e) == FALSE

\* mutant: the skip also taken for a FAILED row
idempotentSkip_AlsoFailed(l, e) == statusOf(l, e) \in {"ROUTED", "FAILED"}

\* if (existingEvent?.status === 'ROUTED') return { success: true }
idempotentSkip(l, e) == statusOf(l, e) = "ROUTED"

\* existingEvent = await getEventById(data.eventId), then the idempotent skip
stepGetById(j) ==
    /\ jobs[j].pc = "getById"
    /\ jobs' = [jobs EXCEPT ![j] = IF idempotentSkip(ledger, EventOf(j))
                                    THEN completed(@) ELSE [@ EXCEPT !.pc = "incr"]]
    /\ UNCHANGED <<dlq, ledger, replays, autoId, created, routeOk, toRouted, toFailed, dups, calls, retry, answer, down, rate, hmac, workers>>

\* if (!exists) await createEvent(...)
stepCreate(j) ==
    /\ jobs[j].pc = "create"
    /\ ledger' = createEventLedger(ledger, jobs[j].data)
    /\ created' = IF createEventReturnsRow(ledger, jobs[j].data)
                   THEN [created EXCEPT ![EventOf(j)] = @ + 1] ELSE created
    /\ jobs' = [jobs EXCEPT ![j].pc = "incr"]
    /\ UNCHANGED <<dlq, replays, autoId, routeOk, toRouted, toFailed, dups, calls, retry, answer, down, rate, hmac, workers>>

\* await incrementEventAttempts(data.eventId)
stepIncrement(j) ==
    /\ jobs[j].pc = "incr"
    /\ ledger' = incrementEventAttempts(ledger, EventOf(j))
    /\ jobs' = [jobs EXCEPT ![j].pc = "route"]
    /\ UNCHANGED <<dlq, replays, autoId, created, routeOk, toRouted, toFailed, dups, calls, retry, answer, down, rate, hmac, workers>>

\* await simulateRoutingService(...) returned true
routeSucceeds(j) ==
    /\ jobs[j].pc = "route"
    /\ routeOk' = [routeOk EXCEPT ![EventOf(j)] = @ + 1]
    /\ jobs' = [jobs EXCEPT ![j].pc = "markRouted"]
    /\ UNCHANGED <<dlq, ledger, replays, autoId, created, toRouted, toFailed, dups, calls, retry, answer, down, rate, hmac, workers>>

\* await simulateRoutingService(...) threw; processEvent rethrows
routeFails(j) ==
    /\ jobs[j].pc = "route"
    /\ jobs' = [jobs EXCEPT ![j] = [failed(@) EXCEPT !.err = RoutingError]]
    /\ UNCHANGED <<dlq, ledger, replays, autoId, created, routeOk, toRouted, toFailed, dups, calls, retry, answer, down, rate, hmac, workers>>

\* await markEventRouted(data.eventId); return { success: true }
stepMarkRouted(j) ==
    /\ jobs[j].pc = "markRouted"
    /\ ledger' = markEventRouted(ledger, EventOf(j))
    /\ toRouted' = IF statusOf(ledger, EventOf(j)) # "ROUTED"
                       /\ statusOf(ledger', EventOf(j)) = "ROUTED"
                    THEN [toRouted EXCEPT ![EventOf(j)] = @ + 1] ELSE toRouted
    /\ jobs' = [jobs EXCEPT ![j] = completed(@)]
    /\ UNCHANGED <<dlq, replays, autoId, created, routeOk, toFailed, dups, calls, retry, answer, down, rate, hmac, workers>>

\* 'failed' handler of an exhausted job: await handleFinalFailure(job.data, error.message)
handleFinalFailure(j) ==
    /\ jobs[j].h = "markFailed"
    /\ ledger' = markEventFailed(ledger, EventOf(j), jobs[j].err)
    /\ toFailed' = IF eventExists(ledger, EventOf(j))
                    THEN [toFailed EXCEPT ![EventOf(j)] = @ + 1] ELSE toFailed
    /\ jobs' = [jobs EXCEPT ![j].h = "addToDLQ"]
    /\ UNCHANGED <<dlq, replays, autoId, created, routeOk, toRouted, dups, calls, retry, answer, down, rate, hmac, workers>>

\* 'failed' handler of an exhausted job: await addToDLQ({ originalJob: job.data, ... })
addToDLQ(j) ==
    /\ jobs[j].h = "addToDLQ"
    /\ dlq' = Append(dlq, dlqEntry(j, jobs[j], jobs[j].err))
    /\ jobs' = [jobs EXCEPT ![j].h = "done"]
    /\ UNCHANGED <<ledger, replays, autoId, created, routeOk, toRouted, toFailed, dups, calls, retry, answer, down, rate, hmac, workers>>

\* removeOnComplete / removeOnFail: the queue drops a finished job once it is old
\* enough (an hour completed, a day failed) or, completed, beyond the newest 1000;
\* its jobId is free again.  The 'failed' handler of the job, a matter of
\* milliseconds, has finished by then.  Of a removed job the model keeps that it
\* was added, its id, its data and whether its 'failed' handler ran.
removeFinished(j) ==
    /\ jobs[j].state \in Finished
    /\ jobs[j].h \in {"none", "done"}
    /\ jobs' = [jobs EXCEPT ![j] = [newJob(@.id, @.name, @.data) EXCEPT !.state = "removed",
                                                                        !.h = jobs[j].h]]
    /\ UNCHANGED <<dlq, ledger, replays, autoId, created, routeOk, toRouted, toFailed, dups, calls, retry, answer, down, rate, hmac, workers>>

----------------------------------------------------------------------------
(* Replay: queue.ts replayDLQJobs, called by controller.ts replayDLQ *)

\* a replayDLQJobs call: where it is, the entries getJobs returned, the index of
\* the loop, replayedCount, and as history the jobs it added, the entries they
\* were made from, the entries it removed and the entries at which a call threw
idleReplay ==
    [pc |-> "idle", snap |-> <<>>, i |-> 1, count |-> 0, added |-> <<>>, from |-> <<>>,
     removed |-> <<>>, failed |-> <<>>]

\* deadLetterQueue.getJobs(['waiting', 'delayed']); nothing consumes or delays the
\* entries of 'events-dlq', so every stored entry is waiting
getJobs(q) == SortedSeq({d \in Indices(q) : q[d].state = "waiting"})

\* const jobs = await deadLetterQueue.getJobs(...); let replayedCount = 0
replayStart(r) ==
    /\ replays[r].pc = "idle"
    /\ \A k \in 1..(r - 1) : replays[k].pc # "idle"
    /\ replays' = [replays EXCEPT ![r] =
                      [idleReplay EXCEPT !.snap = getJobs(dlq),
                                         !.pc = IF getJobs(dlq) = <<>> THEN "done" ELSE "add"]]
    /\ UNCHANGED <<jobs, dlq, ledger, autoId, created, routeOk, toRouted, toFailed, dups, calls, retry, answer, down, rate, hmac, workers>>

\* mutant: the replayed job given a correlation id of its own
replayData_NewCorrelationId(entry) == [entry.originalJob EXCEPT !.correlationId = "uuid"]

\* the data replayDLQJobs enqueues for a DLQ entry
replayData(entry) == entry.originalJob

\* mutant: replay that sets the row of the event back to ROUTING_PENDING
replayAdd_ResetsLedger(r) ==
    /\ replays[r].pc = "add"
    /\ Len(jobs) < MaxJobs
    /\ jobs' = addRetryJob(jobs, replayData(dlq[replays[r].snap[replays[r].i]]), autoId + 1)
    /\ autoId' = autoId + 1
    /\ ledger' = LET e == replayData(dlq[replays[r].snap[replays[r].i]]).eventId
                 IN  IF findOne(ledger, e) = 0 THEN ledger
                     ELSE [ledger EXCEPT ![findOne(ledger, e)].status = "ROUTING_PENDING"]
    /\ replays' = [replays EXCEPT ![r].pc = "remove", ![r].added = Append(@, Len(jobs) + 1),
                                  ![r].from = Append(@, replays[r].snap[replays[r].i])]
    /\ UNCHANGED <<dlq, created, routeOk, toRouted, toFailed, dups, calls, retry, answer, down, rate, hmac, workers>>

\* await eventQueue.add('retry', job.data.originalJob)
replayAdd(r) ==
    /\ replays[r].pc = "add"
    /\ Len(jobs) < MaxJobs
    /\ jobs' = addRetryJob(jobs, replayData(dlq[replays[r].snap[replays[r].i]]), autoId + 1)
    /\ autoId' = autoId + 1
    /\ replays' = [replays EXCEPT ![r].pc = "remove", ![r].added = Append(@, Len(jobs) + 1),
                                  ![r].from = Append(@, replays[r].snap[replays[r].i])]
    /\ UNCHANGED <<dlq, ledger, created, routeOk, toRouted, toFailed, dups, calls, retry, answer, down, rate, hmac, workers>>

\* mutant: replay forgets to remove the entry
removeEntry_Kept(q, d) == q

\* job.remove() of a DLQ entry (an entry already removed is removed without error)
removeEntry(q, d) == [q EXCEPT ![d].state = "removed"]

\* await job.remove(); replayedCount++; next entry, or return after the last one
replayRemove(r) ==
    /\ replays[r].pc = "remove"
    /\ dlq' = removeEntry(dlq, replays[r].snap[replays[r].i])
    /\ replays' = [replays EXCEPT ![r].count = @ + 1, ![r].i = @ + 1,
                      ![r].removed = Append(@, replays[r].snap[replays[r].i]),
                      ![r].pc = IF replays[r].i = Len(replays[r].snap) THEN "done" ELSE "add"]
    /\ UNCHANGED <<jobs, ledger, autoId, created, routeOk, toRouted, toFailed, dups, calls, retry, answer, down, rate, hmac, workers>>

\* replayDLQ answers { replayed: count }
replayReturn(r) ==
    /\ replays[r].pc = "done"
    /\ replays' = [replays EXCEPT ![r] = idleReplay]
    /\ UNCHANGED <<jobs, dlq, ledger, autoId, created, routeOk, toRouted, toFailed, dups, calls, retry, answer, down, rate, hmac, workers>>

----------------------------------------------------------------------------
(* The gateway *)

Init ==
    /\ jobs = <<>>
    /\ dlq = <<>>
    /\ ledger = <<>>
    /\ replays = [r \in 1..MaxReplays |-> idleReplay]
    /\ autoId = 0
    /\ created = [e \in EventIds |-> 0]
    /\ routeOk = [e \in EventIds |-> 0]
    /\ toRouted = [e \in EventIds |-> 0]
    /\ toFailed = [e \in EventIds |-> 0]
    /\ dups = [e \in EventIds |-> FALSE]
    /\ calls = <<>>
    /\ retry = noRetry
    /\ answer = noAnswer
    /\ down = "running"
    /\ rate = noRate
    /\ hmac = noHmac
    /\ workers = mainWorker

Ingest == \E req \in Requests : ingestEvent(req)

WorkerStep ==
    \/ \E j \in Indices(jobs) : lease(j)
    \/ \E j \in Indices(jobs) : promote(j)
    \/ \E j \in Indices(jobs) : stepExists(j)
    \/ \E j \in Indices(jobs) : stepGetById(j)
    \/ \E j \in Indices(jobs) : stepCreate(j)
    \/ \E j \in Indices(jobs) : stepIncrement(j)
    \/ \E j \in Indices(jobs) : routeSucceeds(j)
    \/ \E j \in Indices(jobs) : routeFails(j)
    \/ \E j \in Indices(jobs) : stepMarkRouted(j)
    \/ \E j \in Indices(jobs) : handleFinalFailure(j)
    \/ \E j \in Indices(jobs) : addToDLQ(j)

Retention == \E j \in Indices(jobs) : removeFinished(j)

Replay ==
    \/ \E r \in 1..MaxReplays : replayStart(r)
    \/ \E r \in 1..MaxReplays : replayAdd(r)
    \/ \E r \in 1..MaxReplays : replayRemove(r)
    \/ \E r \in 1..MaxReplays : replayReturn(r)

Next == Ingest \/ WorkerStep \/ Retention \/ Replay

Spec == Init /\ [][Next]_vars

\* ingestion, worker and retention alone: nobody calls POST /events/dlq/replay
NextNoReplay == Ingest \/ WorkerStep \/ Retention

SpecNoReplay == Init /\ [][NextNoReplay]_vars

----------------------------------------------------------------------------
(* The gateway some time after jobs of one event exhausted their attempts: the  *)
(* row is FAILED, each exhausted job left its DeadLetterEntry, and the failed   *)
(* jobs themselves have been dropped by removeOnFail.  When more than 30 days    *)
(* have passed, the TTL index on createdAt has deleted the row while the DLQ    *)
(* entries, which have no retention, remain.  jobs, autoId and the routing      *)
(* history count from this moment on.  The operator replays the DLQ, possibly   *)
(* with several requests at once; no producer resubmits the event.  The expired *)
(* row is explored with one stranded entry.                                     *)

strandedEntry(data) ==
    [originalJob |-> data, error |-> RoutingError, failedAt |-> "date",
     attempts |-> MaxAttempts, state |-> "waiting", job |-> 0]

InitReplay ==
    \E data \in AllJobData, n \in 1..MaxStranded, expired \in BOOLEAN :
        /\ expired => n = 1
        /\ jobs = <<>>
        /\ dlq = [k \in 1..n |-> strandedEntry(data)]
        /\ ledger = IF expired THEN <<>>
                    ELSE <<[newEvent(data) EXCEPT !.status = "FAILED", !.error = RoutingError,
                                                  !.attempts = n * MaxAttempts]>>
        /\ replays = [r \in 1..MaxReplays |-> idleReplay]
        /\ autoId = 0
        /\ created = [e \in EventIds |-> IF e = data.eventId THEN 1 ELSE 0]
        /\ routeOk = [e \in EventIds |-> 0]
        /\ toRouted = [e \in EventIds |-> 0]
        /\ toFailed = [e \in EventIds |-> IF e = data.eventId THEN n ELSE 0]
        /\ dups = [e \in EventIds |-> FALSE]
        /\ calls = <<>>
        /\ retry = noRetry
        /\ answer = noAnswer
        /\ down = "running"
        /\ rate = noRate
        /\ hmac = noHmac
        /\ workers = mainWorker

NextReplay == WorkerStep \/ Retention \/ Replay

SpecReplay == InitReplay /\ [][NextReplay]_vars

----------------------------------------------------------------------------
(* The ledger's createEvent under arbitrary callers: each call builds its       *)
(* document and awaits save(), one insert that the unique index decides.        *)

LedgerEventIds == {"e1", "e2"}
LedgerPayloads == {"p1", "p2"}
LedgerData == {JobData(e, "ORDER_CREATED", p, "c1") : e \in LedgerEventIds, p \in LedgerPayloads}

createEventCall(data) ==
    /\ Len(calls) < MaxCallers
    /\ ledger' = createEventLedger(ledger, data)
    /\ calls' = Append(calls, [data |-> data, row |-> createEventReturnsRow(ledger, data)])
    /\ UNCHANGED <<jobs, dlq, replays, autoId, created, routeOk, toRouted, toFailed, dups, retry, answer, down, rate, hmac, workers>>

NextLedger == \E data \in LedgerData : createEventCall(data)

SpecLedger == Init /\ [][NextLedger]_vars

----------------------------------------------------------------------------
(* The retry policy of defaultJobOptions: attempts and an exponential backoff   *)
(* with a base delay.  One job is followed through its attempts; BullMQ         *)
(* computes the delay of a retry from the attempts made so far.                 *)

MaxBackoffAttempts == 6
BackoffAttempts == 1..MaxBackoffAttempts
BackoffDelays == {250, 500, 1000, 2000}

\* mutant: the exponent taken from the attempts made, without the - 1
exponentialBackoff_NoMinusOne(delay, attemptsMade) == delay * 2^attemptsMade

\* backoff: { type: 'exponential', delay }: BullMQ's built-in strategy,
\* Math.round(Math.pow(2, attemptsMade - 1) * delay), attemptsMade counting the
\* attempt that has just failed
exponentialBackoff(delay, attemptsMade) == delay * 2^(attemptsMade - 1)

\* the delay after the failure of the attempt of index i (the first attempt is 0)
nextDelay(delay, i) == exponentialBackoff(delay, i + 1)

InitBackoff ==
    /\ Init!1 /\ Init!2 /\ Init!3 /\ Init!4 /\ Init!5 /\ Init!6 /\ Init!7 /\ Init!8
    /\ Init!9 /\ Init!10 /\ Init!11 /\ Init!13 /\ Init!14 /\ Init!15 /\ Init!16 /\ Init!17
    /\ retry \in {[attempts |-> a, delay |-> d, attemptsMade |-> 0, delays |-> <<>>,
                   state |-> "active"] : a \in BackoffAttempts, d \in BackoffDelays}

\* the attempt throws: retried after its backoff delay while attempts remain,
\* failed for good otherwise
retryAttemptFails ==
    /\ retry.state = "active"
    /\ retry' = IF retry.attemptsMade + 1 < retry.attempts
                 THEN [retry EXCEPT !.attemptsMade = @ + 1, !.state = "delayed",
                                    !.delays = Append(@, nextDelay(retry.delay, retry.attemptsMade))]
                 ELSE [retry EXCEPT !.attemptsMade = @ + 1, !.state = "failed"]
    /\ UNCHANGED <<jobs, dlq, ledger, replays, autoId, created, routeOk, toRouted, toFailed, dups, calls, answer, down, rate, hmac, workers>>

retryAttemptSucceeds ==
    /\ retry.state = "active"
    /\ retry' = [retry EXCEPT !.state = "completed"]
    /\ UNCHANGED <<jobs, dlq, ledger, replays, autoId, created, routeOk, toRouted, toFailed, dups, calls, answer, down, rate, hmac, workers>>

\* the delay runs out
retryPromote ==
    /\ retry.state = "delayed"
    /\ retry' = [retry EXCEPT !.state = "active"]
    /\ UNCHANGED <<jobs, dlq, ledger, replays, autoId, created, routeOk, toRouted, toFailed, dups, calls, answer, down, rate, hmac, workers>>

NextBackoff == retryAttemptFails \/ retryAttemptSucceeds \/ retryPromote

SpecBackoff == InitBackoff /\ [][NextBackoff]_vars

----------------------------------------------------------------------------
(* ingestEvent with its response: any request, HMAC_SECRET configured or not,   *)
(* the queue reachable or not.  An ingestion that is not answered 202 changes   *)
(* nothing, so Spec, which does not follow responses, loses no behaviour by     *)
(* taking the secret as configured and the queue as reachable.                  *)

\* mutant: the failure of the enqueue swallowed, the request accepted anyway
ingestResponse_SwallowsFailure(req, secret, up) ==
    IF ~secret THEN 500 ELSE ingestStatus(req)

\* the status ingestEvent answers with; up: addEventToQueue returns rather than
\* throws, an exception ends in the catch block
ingestResponse(req, secret, up) ==
    IF ~secret THEN 500
    ELSE IF ingestStatus(req) # 202 THEN ingestStatus(req)
    ELSE IF ~up THEN 500
    ELSE 202

\* mutant: the fields validated only after the enqueue
callsAddEventToQueue_BeforeValidation(req, secret) ==
    secret /\ req.rawBody /\ req.sigValid /\ req.eventId # ""

\* the handler reaches await addEventToQueue(...)
callsAddEventToQueue(req, secret) == secret /\ ingestStatus(req) = 202

ingestAnswered(req, secret, up) ==
    LET data == JobData(req.eventId, req.type, req.payload, correlationIdOf(req))
        added == callsAddEventToQueue(req, secret) /\ up
    IN  /\ added => Len(addEventToQueue(jobs, data)) <= MaxJobs
        /\ jobs' = IF added THEN addEventToQueue(jobs, data) ELSE jobs
        /\ dups' = IF added /\ jobIdOutstanding(jobs, data.eventId)
                     THEN [dups EXCEPT ![data.eventId] = TRUE] ELSE dups
        /\ answer' = [req |-> req, secret |-> secret, up |-> up,
                      status |-> ingestResponse(req, secret, up), added |-> added]
        /\ UNCHANGED <<dlq, ledger, replays, autoId, created, routeOk, toRouted, toFailed, calls, retry, down, rate, hmac, workers>>

IngestAnswered == \E req \in AllRequests, secret \in BOOLEAN, up \in BOOLEAN : ingestAnswered(req, secret, up)

NextIngest == IngestAnswered \/ WorkerStep \/ Retention

SpecIngest == Init /\ [][NextIngest]_vars

----------------------------------------------------------------------------
(* The worker while MongoDB may be unreachable for a moment: any ledger call of *)
(* an attempt, or of the 'failed' handler, can reject.  Spec takes the ledger   *)
(* as reachable throughout.                                                     *)

\* the steps of processEvent that await a repository call
LedgerSteps == {"exists", "getById", "create", "incr", "markRouted"}

\* the awaited repository call rejects: outside the try block, or inside it and
\* rethrown by the catch, the error leaves processEvent and the processor, and
\* BullMQ fails the attempt like any other
ledgerFails(j) ==
    /\ jobs[j].pc \in LedgerSteps
    /\ jobs' = [jobs EXCEPT ![j] = [failed(@) EXCEPT !.err = LedgerError]]
    /\ UNCHANGED <<dlq, ledger, replays, autoId, created, routeOk, toRouted, toFailed, dups, calls, retry, answer, down, rate, hmac, workers>>

\* markEventFailed rejects inside the 'failed' handler: handleFinalFailure throws,
\* the handler ends there and addToDLQ is not called
finalFailureLedgerFails(j) ==
    /\ jobs[j].h = "markFailed"
    /\ jobs' = [jobs EXCEPT ![j].h = "done"]
    /\ UNCHANGED <<dlq, ledger, replays, autoId, created, routeOk, toRouted, toFailed, dups, calls, retry, answer, down, rate, hmac, workers>>

LedgerFailure ==
    \/ \E j \in Indices(jobs) : ledgerFails(j)
    \/ \E j \in Indices(jobs) : finalFailureLedgerFails(j)

NextInfra == Ingest \/ WorkerStep \/ Retention \/ LedgerFailure

SpecInfra == Init /\ [][NextInfra]_vars

----------------------------------------------------------------------------
(* The gateway under fair scheduling, queue and ledger reachable: the worker    *)
(* takes a waiting job when it has a free slot, a delay runs out, every awaited *)
(* call of an attempt and of the 'failed' handler returns, and the Routing      *)
(* Collaborator answers every call, with success or with an error.              *)

Fairness ==
    \A j \in 1..MaxJobs :
        /\ WF_vars(j \in Indices(jobs) /\ lease(j))
        /\ WF_vars(j \in Indices(jobs) /\ promote(j))
        /\ WF_vars(j \in Indices(jobs) /\ stepExists(j))
        /\ WF_vars(j \in Indices(jobs) /\ stepGetById(j))
        /\ WF_vars(j \in Indices(jobs) /\ stepCreate(j))
        /\ WF_vars(j \in Indices(jobs) /\ stepIncrement(j))
        /\ WF_vars(j \in Indices(jobs) /\ (routeSucceeds(j) \/ routeFails(j)))
        /\ WF_vars(j \in Indices(jobs) /\ stepMarkRouted(j))
        /\ WF_vars(j \in Indices(jobs) /\ handleFinalFailure(j))
        /\ WF_vars(j \in Indices(jobs) /\ addToDLQ(j))

SpecFair == Init /\ [][Next]_vars /\ Fairness

----------------------------------------------------------------------------
(* Shutdown: app.ts gracefulShutdown on SIGTERM / SIGINT.  worker.close() stops *)
(* the worker from taking jobs and returns when the processors of its active    *)
(* jobs have returned; the 'failed' listener is an async function the worker    *)
(* emits to and does not await.                                                 *)

\* the connections a step needs are still open
WorkerOpen == down \in {"running", "stopping"}
QueuesOpen == down \in {"running", "stopping", "workerStopped"}
MongoOpen == down \in {"running", "stopping", "workerStopped", "queuesClosed"}

\* process.on('SIGTERM' / 'SIGINT'): server.close(...), then stopWorker() is called
shutdownSignal ==
    /\ down = "running"
    /\ down' = "stopping"
    /\ UNCHANGED <<jobs, dlq, ledger, replays, autoId, created, routeOk, toRouted, toFailed, dups, calls, retry, answer, rate, hmac, workers>>

\* await stopWorker() returns: worker.close() has waited for the active jobs
stopWorker ==
    /\ down = "stopping"
    /\ ActiveJobs = {}
    /\ down' = "workerStopped"
    /\ UNCHANGED <<jobs, dlq, ledger, replays, autoId, created, routeOk, toRouted, toFailed, dups, calls, retry, answer, rate, hmac, workers>>

\* await closeQueues()
closeQueues ==
    /\ down = "workerStopped"
    /\ down' = "queuesClosed"
    /\ UNCHANGED <<jobs, dlq, ledger, replays, autoId, created, routeOk, toRouted, toFailed, dups, calls, retry, answer, rate, hmac, workers>>

\* await closeMongo()
closeMongo ==
    /\ down = "queuesClosed"
    /\ down' = "mongoClosed"
    /\ UNCHANGED <<jobs, dlq, ledger, replays, autoId, created, routeOk, toRouted, toFailed, dups, calls, retry, answer, rate, hmac, workers>>

\* await closeRedis(); process.exit(0)
closeRedis ==
    /\ down = "mongoClosed"
    /\ down' = "exited"
    /\ UNCHANGED <<jobs, dlq, ledger, replays, autoId, created, routeOk, toRouted, toFailed, dups, calls, retry, answer, rate, hmac, workers>>

\* the 'failed' handler awaits a call on a connection that has been closed: the
\* call rejects and the handler ends
handlerRejected(j) ==
    /\ down # "exited"
    /\ \/ jobs[j].h = "markFailed" /\ ~MongoOpen
       \/ jobs[j].h = "addToDLQ" /\ ~QueuesOpen
    /\ jobs' = [jobs EXCEPT ![j].h = "done"]
    /\ UNCHANGED <<dlq, ledger, replays, autoId, created, routeOk, toRouted, toFailed, dups, calls, retry, answer, down, rate, hmac, workers>>

NextShutdown ==
    \/ shutdownSignal
    \/ stopWorker
    \/ closeQueues
    \/ closeMongo
    \/ closeRedis
    \/ down = "running" /\ Ingest
    \/ down = "running" /\ Retention
    \/ down = "running" /\ \E j \in Indices(jobs) : lease(j)
    \/ down = "running" /\ \E j \in Indices(jobs) : promote(j)
    \/ WorkerOpen /\ \E j \in Indices(jobs) : stepExists(j)
    \/ WorkerOpen /\ \E j \in Indices(jobs) : stepGetById(j)
    \/ WorkerOpen /\ \E j \in Indices(jobs) : stepCreate(j)
    \/ WorkerOpen /\ \E j \in Indices(jobs) : stepIncrement(j)
    \/ WorkerOpen /\ \E j \in Indices(jobs) : routeSucceeds(j)
    \/ WorkerOpen /\ \E j \in Indices(jobs) : routeFails(j)
    \/ WorkerOpen /\ \E j \in Indices(jobs) : stepMarkRouted(j)
    \/ MongoOpen /\ \E j \in Indices(jobs) : handleFinalFailure(j)
    \/ QueuesOpen /\ \E j \in Indices(jobs) : addToDLQ(j)
    \/ \E j \in Indices(jobs) : handlerRejected(j)

SpecShutdown == Init /\ [][NextShutdown]_vars

----------------------------------------------------------------------------
(* The worker's limiter { max: MAX_RATE, duration: RATE_DURATION } over time.   *)
(* BullMQ counts the jobs it starts in a key of the queue: the first start      *)
(* after the key has expired sets it to 1 with a time to live of `duration`,    *)
(* every further start increments it, and while the key holds `max` no job is   *)
(* started.  Time passes in ticks; there are always jobs waiting.  Spec leaves  *)
(* time out: there a waiting job can be taken whenever a slot is free, as it    *)
(* can here once the clock has moved on.                                        *)

MaxRate == 2        \* QUEUE_MAX_RATE of the run
RateDuration == 2   \* QUEUE_RATE_DURATION of the run, in ticks
MaxTime == 5        \* ticks of the clock
MaxStarts == 6      \* attempts started

\* the limiter's key at time `now`: gone once its time to live is over
limiterCount(r) == IF r.now >= r.expires THEN 0 ELSE r.count

\* PEXPIRE on the first start of a window only
limiterExpires(r) == IF limiterCount(r) = 0 THEN r.now + RateDuration ELSE r.expires

\* mutant: a worker that does not look at the limiter
rateLimited_Never(r) == FALSE

\* the worker is rate limited: the key holds max
rateLimited(r) == limiterCount(r) >= MaxRate

\* the worker starts an attempt: a free slot, the limiter admits it; `w` is the
\* time at which the limiter's current window was opened (history)
startAttempt ==
    /\ Len(rate.starts) < MaxStarts
    /\ rate.active < Concurrency
    /\ ~rateLimited(rate)
    /\ rate' = [rate EXCEPT !.count = limiterCount(rate) + 1,
                            !.expires = limiterExpires(rate),
                            !.active = @ + 1,
                            !.starts = Append(@, [t |-> rate.now,
                                                   w |-> limiterExpires(rate) - RateDuration])]
    /\ UNCHANGED <<jobs, dlq, ledger, replays, autoId, created, routeOk, toRouted, toFailed, dups, calls, retry, answer, down, hmac, workers>>

\* processEvent returns or throws: the slot is free again
endAttempt ==
    /\ rate.active > 0
    /\ rate' = [rate EXCEPT !.active = @ - 1]
    /\ UNCHANGED <<jobs, dlq, ledger, replays, autoId, created, routeOk, toRouted, toFailed, dups, calls, retry, answer, down, hmac, workers>>

tick ==
    /\ rate.now < MaxTime
    /\ rate' = [rate EXCEPT !.now = @ + 1]
    /\ UNCHANGED <<jobs, dlq, ledger, replays, autoId, created, routeOk, toRouted, toFailed, dups, calls, retry, answer, down, hmac, workers>>

NextRate == startAttempt \/ endAttempt \/ tick

SpecRate == Init /\ [][NextRate]_vars

----------------------------------------------------------------------------
(* Two events in the queue at once, one job each, processed by one worker with  *)
(* Concurrency slots while MongoDB and Redis may reject any call.  An error     *)
(* thrown by processEvent is caught by BullMQ, which fails that job's attempt;  *)
(* a rejection of the 'failed' handler is an unhandled rejection, which         *)
(* index.ts only logs.  The Routing Collaborator may leave a call unanswered.   *)

\* addToDLQ rejects inside the 'failed' handler: the handler ends there
addToDLQFails(j) ==
    /\ jobs[j].h = "addToDLQ"
    /\ jobs' = [jobs EXCEPT ![j].h = "done"]
    /\ UNCHANGED <<dlq, ledger, replays, autoId, created, routeOk, toRouted, toFailed, dups, calls, retry, answer, down, rate, hmac, workers>>

InitIsolation ==
    /\ jobs = <<newJob("e1", "e1", JobData("e1", "t1", "p1", "c1")),
                newJob("e2", "e2", JobData("e2", "t1", "p1", "c1"))>>
    /\ created = [e \in LedgerEventIds |-> 0]
    /\ routeOk = [e \in LedgerEventIds |-> 0]
    /\ toRouted = [e \in LedgerEventIds |-> 0]
    /\ toFailed = [e \in LedgerEventIds |-> 0]
    /\ dups = [e \in LedgerEventIds |-> FALSE]
    /\ Init!2 /\ Init!3 /\ Init!4 /\ Init!5 /\ Init!11 /\ Init!12 /\ Init!13 /\ Init!14 /\ Init!15 /\ Init!16 /\ Init!17

IsolatedStep ==
    \/ \E j \in Indices(jobs) : lease(j)
    \/ \E j \in Indices(jobs) : promote(j)
    \/ \E j \in Indices(jobs) : stepExists(j)
    \/ \E j \in Indices(jobs) : stepGetById(j)
    \/ \E j \in Indices(jobs) : stepCreate(j)
    \/ \E j \in Indices(jobs) : stepIncrement(j)
    \/ \E j \in Indices(jobs) : routeSucceeds(j)
    \/ \E j \in Indices(jobs) : routeFails(j)
    \/ \E j \in Indices(jobs) : stepMarkRouted(j)
    \/ \E j \in Indices(jobs) : handleFinalFailure(j)
    \/ \E j \in Indices(jobs) : addToDLQ(j)
    \/ \E j \in Indices(jobs) : addToDLQFails(j)

NextIsolation == IsolatedStep \/ LedgerFailure

\* the worker takes a waiting job when it has a free slot, a delay runs out,
\* every awaited call on MongoDB or Redis returns or rejects; nothing is
\* assumed of the Routing Collaborator
FairnessIsolation ==
    \A j \in 1..2 :
        /\ WF_vars(lease(j))
        /\ WF_vars(promote(j))
        /\ WF_vars(stepExists(j) \/ stepGetById(j) \/ stepCreate(j) \/ stepIncrement(j)
                      \/ stepMarkRouted(j) \/ ledgerFails(j))
        /\ WF_vars(handleFinalFailure(j) \/ finalFailureLedgerFails(j))
        /\ WF_vars(addToDLQ(j) \/ addToDLQFails(j))

SpecIsolation == InitIsolation /\ [][NextIsolation]_vars /\ FairnessIsolation

----------------------------------------------------------------------------
(* The pipeline with requests that differ in their data: ingestion, attempts,   *)
(* DLQ and one replay call at a time.  The last request is kept in `answer`.    *)

\* two submissions of the event that differ in every field but the eventId, the
\* second without an x-correlation-id header
DataRequests ==
    {[rawBody |-> TRUE, sigValid |-> TRUE, eventId |-> "e1", type |-> "ORDER_CREATED",
      payload |-> "p1", correlationId |-> "c1"],
     [rawBody |-> TRUE, sigValid |-> TRUE, eventId |-> "e1", type |-> "ORDER_PAID",
      payload |-> "p2", correlationId |-> ""]}

IngestData == \E req \in DataRequests : ingestAnswered(req, TRUE, TRUE)

ReplayData ==
    \/ replayStart(1)
    \/ replayAdd(1)
    \/ replayRemove(1)
    \/ replayReturn(1)

NextData == IngestData \/ WorkerStep \/ Retention \/ ReplayData

SpecData == Init /\ [][NextData]_vars

----------------------------------------------------------------------------
(* shared/hmac.ts: validateHMAC and generateHMAC as functions.  A string of hex *)
(* characters is a sequence of characters, a buffer a sequence of bytes, a byte *)
(* a pair of nibbles.  HMAC-SHA256 is a function from message and key to a      *)
(* digest of DigestBytes bytes (32 in the code) that gives different digests to *)
(* the different inputs of the model.                                           *)

DigestBytes == 1     \* bytes of a digest
MaxSignature == 4    \* characters of a signature header

\* the characters of the model: lower and upper case hex digits and one that is
\* no hex digit
HexDigits == <<"0", "1", "a">>
Chars == {"0", "1", "a", "A", "g"}

isHex(c) == c \in {"0", "1", "a", "A"}
hexValue(c) == IF c = "0" THEN 0 ELSE IF c = "1" THEN 1 ELSE 10
hexChar(n) == IF n = 0 THEN "0" ELSE IF n = 1 THEN "1" ELSE "a"

\* the payloads signed: JSON objects
Objects == {"order", "tampered"}
Keys == {"k1", "k2"}

\* JSON.stringify of an object of the model
jsonStringify(o) == "{\"type\":\"" \o o \o "\"}"

\* JSON.stringify of a string: the string quoted
jsonStringifyString(str) == "\"" \o str \o "\""

\* the messages HMAC-SHA256 is applied to
Messages ==
    <<jsonStringify("order"), jsonStringify("tampered"),
      jsonStringifyString(jsonStringify("order")), jsonStringifyString(jsonStringify("tampered"))>>
KeySeq == <<"k1", "k2">>

Position(seq, x) == CHOOSE i \in Indices(seq) : seq[i] = x

\* crypto.createHmac('sha256', key).update(msg).digest(): the bytes of the digest
hmacSha256(msg, key) ==
    LET n == (Position(Messages, msg) - 1) * Len(KeySeq) + (Position(KeySeq, key) - 1)
    IN  <<<<HexDigits[(n \div 3) + 1], HexDigits[(n % 3) + 1]>>>>

\* .digest('hex'): two lower case hex characters a byte
RECURSIVE hexEncode(_)
hexEncode(bytes) ==
    IF bytes = <<>> THEN <<>>
    ELSE <<bytes[1][1], bytes[1][2]>> \o hexEncode(Tail(bytes))

\* Buffer.from(str, 'hex'): a byte for every pair of hex characters, in either
\* case, up to the first pair that is not one; a single character left at the
\* end is dropped
RECURSIVE hexDecode(_)
hexDecode(str) ==
    IF Len(str) < 2 \/ ~isHex(str[1]) \/ ~isHex(str[2]) THEN <<>>
    ELSE <<<<hexChar(hexValue(str[1])), hexChar(hexValue(str[2]))>>>> \o hexDecode(Tail(Tail(str)))

\* a payload as validateHMAC can be given it: the object, its JSON string, or the
\* buffer of that string (req.rawBody)
payloadAs(o, form) ==
    IF form = "object" THEN [kind |-> "object", value |-> o]
    ELSE [kind |-> form, value |-> jsonStringify(o)]

\* mutant: every payload that is no buffer stringified
payloadBuffer_AlwaysStringify(payload) ==
    IF payload.kind = "buffer" THEN payload.value
    ELSE IF payload.kind = "string" THEN jsonStringifyString(payload.value)
    ELSE jsonStringify(payload.value)

\* Buffer.isBuffer(payload) ? payload
\*   : Buffer.from(typeof payload === 'string' ? payload : JSON.stringify(payload))
payloadBuffer(payload) ==
    IF payload.kind = "buffer" THEN payload.value
    ELSE IF payload.kind = "string" THEN payload.value
    ELSE jsonStringify(payload.value)

\* crypto.timingSafeEqual: throws when the buffers differ in length
timingSafeEqual(a, b) ==
    IF Len(a) # Len(b) THEN "throws" ELSE IF a = b THEN "true" ELSE "false"

\* what validateHMAC returns, "true" or "false"; what is thrown inside its try
\* block is caught and answered with false
validateHMAC(payload, signature, secret) ==
    IF signature = <<>> \/ secret = "" THEN "false"
    ELSE LET expected == hexEncode(hmacSha256(payloadBuffer(payload), secret))
             signatureBuffer == hexDecode(signature)
             expectedBuffer == hexDecode(expected)
             try == IF Len(signatureBuffer) # Len(expectedBuffer) THEN "false"
                    ELSE timingSafeEqual(signatureBuffer, expectedBuffer)
         IN  IF try = "throws" THEN "false" ELSE try

generateHMAC(o, secret) == hexEncode(hmacSha256(jsonStringify(o), secret))

RECURSIVE Strings(_)
Strings(n) ==
    IF n = 0 THEN {<<>>}
    ELSE Strings(n - 1) \cup {Append(str, c) : str \in {x \in Strings(n - 1) : Len(x) = n - 1}, c \in Chars}

\* a request: a payload in one of its forms, the secret of the gate and whatever
\* the signature header holds, nothing when the producer has yet to sign
InitHmac ==
    /\ hmac \in [object : Objects, form : {"object", "string", "buffer"},
                 secret : Keys \cup {""}, signature : Strings(MaxSignature),
                 result : {"none"}]
    /\ Init!1 /\ Init!2 /\ Init!3 /\ Init!4 /\ Init!5 /\ Init!6 /\ Init!7 /\ Init!8 /\ Init!9 /\ Init!10 /\ Init!11 /\ Init!12 /\ Init!13 /\ Init!14 /\ Init!15 /\ Init!17

\* the producer signs the payload with the secret it shares with the gate
sign ==
    /\ hmac.result = "none" /\ hmac.signature = <<>> /\ hmac.secret # ""
    /\ hmac' = [hmac EXCEPT !.signature = generateHMAC(hmac.object, hmac.secret),
                            !.result = "signed"]
    /\ UNCHANGED <<jobs, dlq, ledger, replays, autoId, created, routeOk, toRouted, toFailed, dups, calls, retry, answer, down, rate, workers>>

\* the gate validates the request
validate ==
    /\ hmac.result \in {"none", "signed"}
    /\ hmac' = [hmac EXCEPT !.result =
                   validateHMAC(payloadAs(hmac.object, hmac.form), hmac.signature, hmac.secret)]
    /\ UNCHANGED <<jobs, dlq, ledger, replays, autoId, created, routeOk, toRouted, toFailed, dups, calls, retry, answer, down, rate, workers>>

NextHmac == sign \/ validate

SpecHmac == InitHmac /\ [][NextHmac]_vars

----------------------------------------------------------------------------
(* A crash of the process while an attempt has written ROUTED and has not yet   *)
(* returned to BullMQ.  The write stays in MongoDB; everything the process was  *)
(* doing is gone: its attempts, its 'failed' handlers, its replay calls.  The   *)
(* jobs it had active stay in the active list without a lock until the worker   *)
(* of the restarted process finds them stalled and moves them back to wait      *)
(* (BullMQ, maxStalledCount = 1 by default: a first stall is recovered).        *)

\* a job left active by a process that is gone
Stalled(j) == jobs[j].state = "active" /\ jobs[j].pc = "none"

\* what the crash leaves of a job
afterCrash(job) ==
    [job EXCEPT !.pc = "none", !.exists = FALSE, !.startStatus = NoValue,
                !.h = IF @ \in {"markFailed", "addToDLQ"} THEN "lost" ELSE @]

\* markEventRouted of job j has updated the row; the process dies before
\* processEvent returns
crashAfterRouted(j) ==
    /\ down = "running"
    /\ jobs[j].pc = "markRouted"
    /\ ledger' = markEventRouted(ledger, EventOf(j))
    /\ toRouted' = IF statusOf(ledger, EventOf(j)) # "ROUTED"
                       /\ statusOf(ledger', EventOf(j)) = "ROUTED"
                    THEN [toRouted EXCEPT ![EventOf(j)] = @ + 1] ELSE toRouted
    /\ jobs' = [k \in Indices(jobs) |-> afterCrash(jobs[k])]
    /\ replays' = [r \in 1..MaxReplays |-> idleReplay]
    /\ down' = "crashed"
    /\ UNCHANGED <<dlq, autoId, created, routeOk, toFailed, dups, calls, retry, answer, rate, hmac, workers>>

\* the process is started again: main() connects and calls startWorker()
restart ==
    /\ down = "crashed"
    /\ down' = "restarted"
    /\ UNCHANGED <<jobs, dlq, ledger, replays, autoId, created, routeOk, toRouted, toFailed, dups, calls, retry, answer, rate, hmac, workers>>

\* the worker's stalled-jobs check moves a job without a lock back to wait
recoverStalled(j) ==
    /\ down = "restarted"
    /\ Stalled(j)
    /\ jobs' = [jobs EXCEPT ![j].state = "waiting"]
    /\ UNCHANGED <<dlq, ledger, replays, autoId, created, routeOk, toRouted, toFailed, dups, calls, retry, answer, down, rate, hmac, workers>>

Up == down # "crashed"

NextCrash ==
    \/ Up /\ Ingest
    \/ Up /\ Retention
    \/ Up /\ \E j \in Indices(jobs) : lease(j)
    \/ Up /\ \E j \in Indices(jobs) : promote(j)
    \/ Up /\ \E j \in Indices(jobs) : stepExists(j)
    \/ Up /\ \E j \in Indices(jobs) : stepGetById(j)
    \/ Up /\ \E j \in Indices(jobs) : stepCreate(j)
    \/ Up /\ \E j \in Indices(jobs) : stepIncrement(j)
    \/ Up /\ \E j \in Indices(jobs) : routeSucceeds(j)
    \/ Up /\ \E j \in Indices(jobs) : routeFails(j)
    \/ Up /\ \E j \in Indices(jobs) : stepMarkRouted(j)
    \/ Up /\ \E j \in Indices(jobs) : handleFinalFailure(j)
    \/ Up /\ \E j \in Indices(jobs) : addToDLQ(j)
    \/ Up /\ \E r \in 1..MaxReplays : replayStart(r)
    \/ Up /\ \E r \in 1..MaxReplays : replayAdd(r)
    \/ Up /\ \E r \in 1..MaxReplays : replayRemove(r)
    \/ Up /\ \E r \in 1..MaxReplays : replayReturn(r)
    \/ \E j \in Indices(jobs) : crashAfterRouted(j)
    \/ restart
    \/ \E j \in Indices(jobs) : recoverStalled(j)

\* the process is started again; while it runs, the worker recovers stalled jobs,
\* takes waiting jobs when it has a free slot, and every awaited call returns
FairnessCrash ==
    /\ WF_vars(restart)
    /\ \A j \in 1..MaxJobs :
          /\ WF_vars(j \in Indices(jobs) /\ recoverStalled(j))
          /\ WF_vars(Up /\ j \in Indices(jobs) /\ lease(j))
          /\ WF_vars(Up /\ j \in Indices(jobs) /\ promote(j))
          /\ WF_vars(Up /\ j \in Indices(jobs) /\ stepExists(j))
          /\ WF_vars(Up /\ j \in Indices(jobs) /\ stepGetById(j))
          /\ WF_vars(Up /\ j \in Indices(jobs) /\ stepCreate(j))
          /\ WF_vars(Up /\ j \in Indices(jobs) /\ stepIncrement(j))
          /\ WF_vars(Up /\ j \in Indices(jobs) /\ (routeSucceeds(j) \/ routeFails(j)))
          /\ WF_vars(Up /\ j \in Indices(jobs) /\ stepMarkRouted(j))

SpecCrash == Init /\ [][NextCrash]_vars /\ FairnessCrash

----------------------------------------------------------------------------
(* replayDLQJobs while Redis may reject a call.  getJobs is awaited outside the *)
(* try block: its rejection leaves replayDLQJobs, and replayDLQ answers 500.    *)
(* eventQueue.add and job.remove are awaited inside the try block of the loop:  *)
(* a rejection is logged and the loop goes on with the next entry.              *)

\* deadLetterQueue.getJobs rejects
getJobsFails(r) ==
    /\ replays[r].pc = "idle"
    /\ \A k \in 1..(r - 1) : replays[k].pc # "idle"
    /\ replays' = [replays EXCEPT ![r].pc = "thrown"]
    /\ UNCHANGED <<jobs, dlq, ledger, autoId, created, routeOk, toRouted, toFailed, dups, calls, retry, answer, down, rate, hmac, workers>>

\* replayDLQ catches and answers 500 { error: 'Failed to replay DLQ' }
replayRejected(r) ==
    /\ replays[r].pc = "thrown"
    /\ replays' = [replays EXCEPT ![r] = idleReplay]
    /\ UNCHANGED <<jobs, dlq, ledger, autoId, created, routeOk, toRouted, toFailed, dups, calls, retry, answer, down, rate, hmac, workers>>

\* mutant: no try block in the loop, a rejection leaves replayDLQJobs
afterCatch_Uncaught(call) ==
    [call EXCEPT !.failed = Append(@, call.snap[call.i]), !.pc = "thrown"]

\* the loop after the catch: the next entry, or the return after the last one
afterCatch(call) ==
    [call EXCEPT !.failed = Append(@, call.snap[call.i]), !.i = @ + 1,
                 !.pc = IF call.i = Len(call.snap) THEN "done" ELSE "add"]

\* eventQueue.add rejects: nothing is added, the entry is not removed
replayAddFails(r) ==
    /\ replays[r].pc = "add"
    /\ replays' = [replays EXCEPT ![r] = afterCatch(@)]
    /\ UNCHANGED <<jobs, dlq, ledger, autoId, created, routeOk, toRouted, toFailed, dups, calls, retry, answer, down, rate, hmac, workers>>

\* job.remove rejects: the job has been added, the entry stays queued and
\* replayedCount is not incremented
replayRemoveFails(r) ==
    /\ replays[r].pc = "remove"
    /\ replays' = [replays EXCEPT ![r] = afterCatch(@)]
    /\ UNCHANGED <<jobs, dlq, ledger, autoId, created, routeOk, toRouted, toFailed, dups, calls, retry, answer, down, rate, hmac, workers>>

ReplayFailure ==
    \/ \E r \in 1..MaxReplays : getJobsFails(r)
    \/ \E r \in 1..MaxReplays : replayRejected(r)
    \/ \E r \in 1..MaxReplays : replayAddFails(r)
    \/ \E r \in 1..MaxReplays : replayRemoveFails(r)

NextReplayFail == Replay \/ ReplayFailure

SpecReplayFail == InitReplay /\ [][NextReplayFail]_vars

-----------------------------------------------------------------------------
(* SpecWorker: the module's Worker singleton. startWorker and stopWorker are   *)
(* exported; stopWorker is called by gracefulShutdown once per signal, and the *)
(* calls of two signals overlap at its await.                                  *)

\* startWorker(): if (worker) return worker; else worker = new Worker(...); return worker
startWorker ==
    /\ workers.starts < MaxStartCalls
    /\ IF workers.worker # 0
       THEN workers' = [workers EXCEPT !.returned = workers.worker, !.starts = @ + 1]
       ELSE /\ Len(workers.inst) < MaxWorkers
            /\ workers' = [workers EXCEPT !.inst = Append(@, "open"),
                                          !.worker = Len(workers.inst) + 1,
                                          !.returned = Len(workers.inst) + 1,
                                          !.starts = @ + 1]
    /\ UNCHANGED <<jobs, dlq, ledger, replays, autoId, created, routeOk, toRouted, toFailed, dups, calls, retry, answer, down, rate, hmac>>

\* stopWorker() up to its await: if (worker) { await worker.close(); ...
\* close() of a Worker that is already closing returns the pending close
stopWorkerBegin(c) ==
    /\ workers.stop[c] = 0
    /\ workers.worker # 0
    /\ workers' = [workers EXCEPT !.stop[c] = workers.worker,
                                  !.inst[workers.worker] = IF @ = "open" THEN "closing" ELSE @]
    /\ UNCHANGED <<jobs, dlq, ledger, replays, autoId, created, routeOk, toRouted, toFailed, dups, calls, retry, answer, down, rate, hmac>>

\* a closing Worker has finished its active jobs: its close() promises resolve
closed(i) ==
    /\ workers.inst[i] = "closing"
    /\ workers' = [workers EXCEPT !.inst[i] = "closed"]
    /\ UNCHANGED <<jobs, dlq, ledger, replays, autoId, created, routeOk, toRouted, toFailed, dups, calls, retry, answer, down, rate, hmac>>

\* stopWorker() after its await: worker = null, whatever worker refers to by now
stopWorkerEnd(c) ==
    /\ workers.stop[c] # 0
    /\ workers.inst[workers.stop[c]] = "closed"
    /\ workers' = [workers EXCEPT !.stop[c] = 0, !.worker = 0]
    /\ UNCHANGED <<jobs, dlq, ledger, replays, autoId, created, routeOk, toRouted, toFailed, dups, calls, retry, answer, down, rate, hmac>>

NextWorker ==
    \/ startWorker
    \/ \E c \in Stoppers : stopWorkerBegin(c)
    \/ \E i \in Indices(workers.inst) : closed(i)
    \/ \E c \in Stoppers : stopWorkerEnd(c)

SpecWorker == Init /\ [][NextWorker]_vars

----------------------------------------------------------------------------
(* Properties *)

JobsOf(e) == {j \in Indices(jobs) : EventOf(j) = e}

\* C1: for every eventId the Routing Collaborator succeeds at most once and the
\* ledger changes into ROUTED at most once, whatever ingestions, attempts, retries
\* and replays take place.
C1_RoutedAtMostOnce == \A e \in EventIds : routeOk[e] <= 1 /\ toRouted[e] <= 1

\* C2: an attempt that started while the ledger status of its eventId was ROUTED
\* never gets past the idempotent skip: it does not create, count, route or mark,
\* it can only return success.
C2_RoutedAttemptSkips ==
    \A j \in Indices(jobs) :
        (jobs[j].state = "active" /\ jobs[j].startStatus = "ROUTED")
            => jobs[j].pc \in {"exists", "getById"}

\* C3: whatever createEvent calls are made, each eventId has at most one row; the
\* first call for an eventId returns the row and stores its data, every later call
\* for it returns null and leaves the stored row as it was.
C3_IdempotentCreate ==
    LET CallsFor(e) == {k \in Indices(calls) : calls[k].data.eventId = e}
    IN
    \A e \in LedgerEventIds :
        /\ Cardinality(Rows(ledger, e)) = (IF CallsFor(e) = {} THEN 0 ELSE 1)
        /\ \A k \in CallsFor(e) :
              /\ calls[k].row <=> (\A k2 \in CallsFor(e) : k <= k2)
              /\ calls[k].row => ledger[findOne(ledger, e)] = newEvent(calls[k].data)

C3_Witness ==
    \E k1, k2 \in Indices(calls) :
        /\ k1 < k2
        /\ calls[k1].data.eventId = calls[k2].data.eventId
        /\ calls[k1].data.payload # calls[k2].data.payload
        /\ calls[k1].row /\ ~calls[k2].row

\* C4: when an eventId is submitted again while its job is outstanding, and nobody
\* replays the DLQ, one row is created for it and its row changes into ROUTED at
\* most once.
C4_DuplicateSubmission ==
    \A e \in EventIds :
        /\ Cardinality(Rows(ledger, e)) <= 1
        /\ created[e] <= 1
        /\ toRouted[e] <= 1

C4_Witness ==
    \E e \in EventIds :
        dups[e] /\ created[e] = 1 /\ toRouted[e] = 1 /\ statusOf(ledger, e) = "ROUTED"

\* C5: an accepted ingestion of an eventId whose job is waiting, active or delayed
\* leaves the main queue as it is, and at no time are two jobs stored under the
\* same jobId.
C5_EnqueueIdempotent ==
    [][LET StoredUnder(id) == {j \in Indices(jobs) : jobs[j].id = id /\ jobs[j].state # "removed"}
       IN
       /\ \A req \in Requests :
             (ingestEvent(req) /\ ingestStatus(req) = 202
                /\ jobIdOutstanding(jobs, req.eventId)) => jobs' = jobs
       /\ \A e \in EventIds : Cardinality(StoredUnder(e))' <= 1]_vars

C5_Witness == \E e \in EventIds : dups[e] /\ jobIdOutstanding(jobs, e)

\* C6: at most one attempt is in progress for any eventId.
C6_OneActiveAttempt ==
    \A e \in EventIds : Cardinality({j \in ActiveJobs : EventOf(j) = e}) <= 1

\* C7: once the status of an event is ROUTED it stays ROUTED.
C7_RoutedAbsorbing ==
    [][\A e \in EventIds :
          statusOf(ledger, e) = "ROUTED" => statusOf(ledger', e) = "ROUTED"]_vars

\* C8: a step that changes the status of a row takes it from ROUTING_PENDING to
\* ROUTED or to FAILED; no step changes a status of ROUTED or FAILED.
C8_AllowedEdges ==
    [][LET PENDING == "ROUTING_PENDING"
       IN
       \A e \in EventIds :
          (eventExists(ledger, e) /\ statusOf(ledger', e) # statusOf(ledger, e))
              => /\ statusOf(ledger, e) = PENDING
                 /\ statusOf(ledger', e) \in {"ROUTED", "FAILED"}]_vars

\* C9: a job fails for good exactly when its attempts are exhausted; its 'failed'
\* handler then writes FAILED once and adds one DeadLetterEntry, which carries the
\* job's data and attempts = MaxAttempts; no other job has an entry.
C9_ExhaustionToDLQ ==
    LET EntriesOf(j) == {d \in Indices(dlq) : dlq[d].job = j}
    IN
    /\ \A j \in Indices(jobs) :
          /\ jobs[j].state = "failed" => jobs[j].attemptsMade = MaxAttempts
          /\ jobs[j].state = "failed" => jobs[j].h # "none"
          /\ jobs[j].state \in Outstanding \cup {"completed"} => jobs[j].h = "none"
          /\ jobs[j].h = "done" =>
                /\ Cardinality(EntriesOf(j)) = 1
                /\ \A d \in EntriesOf(j) : /\ dlq[d].attempts = MaxAttempts
                                             /\ dlq[d].originalJob = jobs[j].data
          /\ jobs[j].h # "done" => EntriesOf(j) = {}
    /\ \A e \in EventIds :
          toFailed[e] = Cardinality({j \in JobsOf(e) : jobs[j].h \in {"addToDLQ", "done"}})

C9_Witness ==
    \E j \in Indices(jobs) :
        /\ jobs[j].state = "failed" /\ jobs[j].h = "done"
        /\ statusOf(ledger, EventOf(j)) = "FAILED"
        /\ toFailed[EventOf(j)] = 1

\* C10: when a replayDLQJobs call returns, every entry it found queued is removed
\* from the DLQ, for each of them the call has added one job of its own to the
\* main queue, under a fresh id and with the entry's originalJob as data, and the
\* count it returns is the number of entries it found.
C10_ReplayAll ==
    \A r \in 1..MaxReplays :
        replays[r].pc = "done" =>
            /\ replays[r].count = Len(replays[r].snap)
            /\ Len(replays[r].added) = Len(replays[r].snap)
            /\ \A k \in Indices(replays[r].snap) :
                  /\ dlq[replays[r].snap[k]].state = "removed"
                  /\ jobs[replays[r].added[k]].data = dlq[replays[r].snap[k]].originalJob
                  /\ jobs[replays[r].added[k]].name = "retry"
                  /\ jobs[replays[r].added[k]].id \notin EventIds
                  /\ \A k2 \in Indices(replays[r].snap) :
                        k2 # k => replays[r].added[k2] # replays[r].added[k]

C10_Witness ==
    \E r \in 1..MaxReplays :
        replays[r].pc = "done" /\ Len(replays[r].snap) = 2 /\ replays[r].count = 2

\* C11: a replayed job that reads FAILED at the idempotency check is processed
\* (it goes on to count the attempt and call the Routing Collaborator), and when
\* its routing call has succeeded and the row is FAILED, its next step changes
\* the row into ROUTED.
C11_ReplayedFailedIsRouted ==
    [][LET RetryJobs == {j \in Indices(jobs) : jobs[j].name = "retry"}
       IN
       \A j \in RetryJobs :
          /\ (jobs[j].pc = "getById" /\ jobs'[j].pc # "getById"
                 /\ statusOf(ledger, EventOf(j)) = "FAILED")
                => jobs'[j].pc = "incr" /\ jobs'[j].state = "active"
          /\ (jobs[j].pc = "markRouted" /\ jobs'[j].pc # "markRouted"
                 /\ statusOf(ledger, EventOf(j)) = "FAILED")
                => /\ statusOf(ledger', EventOf(j)) = "ROUTED"
                   /\ toRouted'[EventOf(j)] = toRouted[EventOf(j)] + 1
                   /\ jobs'[j].state = "completed"]_vars

C11_Witness ==
    LET RetryJobs == {j \in Indices(jobs) : jobs[j].name = "retry"}
    IN
    \E j \in RetryJobs :
        /\ jobs[j].state = "completed"
        /\ statusOf(ledger, EventOf(j)) = "ROUTED"
        /\ ledger[findOne(ledger, EventOf(j))].error = RoutingError
        /\ toFailed[EventOf(j)] = 1 /\ toRouted[EventOf(j)] = 1 /\ routeOk[EventOf(j)] = 1

\* C12: under the default policy (5 attempts, base delay 1000 ms, exponential)
\* the delay after the failure of attempt index i is 1000 * 2^i: the retry
\* policy gives 1000, 2000, 4000, 8000, 16000 for the indices 0..4, and every
\* delay a job is given is the one of the attempt that failed.
DefaultAttempts == 5
DefaultDelay == 1000

C13_ThinIngestion ==
    /\ [][LET IngestionStored ==
                  \/ /\ Len(jobs') = Len(jobs) + 1
                     /\ jobs'[Len(jobs')].name = "process-event"
                  \/ dups' # dups
          IN
          IngestionStored =>
             /\ UNCHANGED <<dlq, ledger, replays, autoId, created, routeOk, toRouted, toFailed>>
             /\ SubSeq(jobs', 1, Len(jobs)) = jobs]_vars
    /\ [](\A req \in Requests :
             (ingestStatus(req) # 202 \/ jobIdTaken(jobs, req.eventId) \/ Len(jobs) < MaxJobs)
                 => ENABLED ingestEvent(req))

C13_Witness ==
    LET PENDING == "ROUTING_PENDING"
    IN
    \E e \in EventIds :
        /\ dups[e]
        /\ \E j \in JobsOf(e) : jobs[j].pc = "route"
        /\ statusOf(ledger, e) = PENDING

\* C14: ingestEvent calls the enqueue only for a request whose signature is
\* valid and whose eventId, type and payload are present; a request with a body
\* and an invalid signature is answered 401, an authenticated request with a
\* required field missing is answered 400, and neither changes the main queue.
C14_RejectedAtTheGate ==
    [][LET FieldsPresent(req) == req.eventId # "" /\ req.type # "" /\ req.payload # ""
       IN
       LET req == answer'.req
           up == answer'.up
       IN  (answer'.secret /\ ingestAnswered(req, TRUE, up)) =>
             /\ answer'.added => (req.sigValid /\ FieldsPresent(req))
             /\ callsAddEventToQueue(req, TRUE) => (req.sigValid /\ FieldsPresent(req))
             /\ (req.rawBody /\ ~req.sigValid) => (answer'.status = 401 /\ jobs' = jobs)
             /\ (req.rawBody /\ req.sigValid /\ ~FieldsPresent(req))
                   => (answer'.status = 400 /\ jobs' = jobs)
             /\ answer'.status \in {400, 401} => jobs' = jobs]_vars

C14_Witness ==
    /\ Len(jobs) > 0
    /\ answer.secret /\ answer.req.rawBody /\ answer.req.sigValid
    /\ answer.req.eventId # "" /\ answer.req.type = ""
    /\ answer.status = 400 /\ ~answer.added
    /\ \A j \in Indices(jobs) : jobs[j].state = "removed"

\* C15: when addEventToQueue throws because the queue cannot be reached,
\* ingestEvent answers 500; it answers 202 only when the enqueue has returned.
C15_EnqueueFailureIs500 ==
    /\ answer.status = 202 => answer.added
    /\ (answer.secret /\ ingestStatus(answer.req) = 202 /\ ~answer.up)
          => (answer.status = 500 /\ ~answer.added)

C15_Witness ==
    /\ answer.secret /\ ingestStatus(answer.req) = 202 /\ ~answer.up
    /\ answer.status = 500
    /\ jobs = <<>>

\* C16: an attempt abandoned because a ledger call failed leads to no terminal
\* status: no row is FAILED with the ledger's error and no DeadLetterEntry
\* carries it.
C16_InfraFailureNotTerminal ==
    /\ \A d \in Indices(dlq) : dlq[d].error # LedgerError
    /\ \A i \in Indices(ledger) : ~(ledger[i].status = "FAILED" /\ ledger[i].error = LedgerError)

\* C17: a failed attempt that leaves the job attempts to spare changes neither
\* the status of the row (a ROUTING_PENDING row stays ROUTING_PENDING) nor the
\* DLQ, and a step that sets a row to FAILED belongs to the 'failed' handler of a
\* job whose attemptsMade has reached the maximum.
FailedAttempt(j) ==
    /\ j \in Indices(jobs) /\ jobs[j].state = "active"
    /\ jobs'[j].state # "active" /\ jobs'[j].attemptsMade = jobs[j].attemptsMade + 1

C17_RetryLeavesPending ==
    [][/\ \A j \in Indices(jobs) :
             (FailedAttempt(j) /\ jobs'[j].attemptsMade < MaxAttempts)
                => /\ jobs'[j].state = "delayed" /\ jobs'[j].h = "none"
                   /\ dlq' = dlq
                   /\ \A e \in EventIds : statusOf(ledger', e) = statusOf(ledger, e)
       /\ \A e \in EventIds :
             (statusOf(ledger', e) = "FAILED" /\ statusOf(ledger, e) # "FAILED")
                => \E j \in JobsOf(e) : /\ jobs[j].h = "markFailed" /\ jobs'[j].h = "addToDLQ"
                                         /\ jobs[j].attemptsMade >= MaxAttempts
       /\ Len(dlq') > Len(dlq)
             => \E j \in Indices(jobs) : /\ jobs[j].h = "addToDLQ" /\ jobs'[j].h = "done"
                                          /\ jobs[j].attemptsMade >= MaxAttempts]_vars

C17_Witness ==
    LET PENDING == "ROUTING_PENDING"
    IN
    \E j \in Indices(jobs) :
        /\ jobs[j].state = "delayed" /\ jobs[j].attemptsMade = 1
        /\ jobs[j].attemptsMade < MaxAttempts
        /\ statusOf(ledger, EventOf(j)) = PENDING
        /\ dlq = <<>>

\* C18: in the step that adds a DeadLetterEntry for an eventId, the row of that
\* eventId exists and its status is FAILED.
C18_LedgerBeforeDLQ ==
    [][Len(dlq') > Len(dlq)
          => statusOf(ledger, dlq'[Len(dlq')].originalJob.eventId) = "FAILED"]_vars

\* C19: under fair scheduling, once an ingestion has put a job of an event into
\* the main queue, the row of the event eventually is ROUTED or FAILED, however
\* many of the routing calls fail.
C19_EventuallyTerminal ==
    \A e \in EventIds :
        (\E j \in JobsOf(e) : jobs[j].name = "process-event")
            ~> (statusOf(ledger, e) \in {"ROUTED", "FAILED"})

C19_Witness ==
    \E j \in Indices(jobs) :
        /\ jobs[j].name = "process-event" /\ jobs[j].state = "completed"
        /\ jobs[j].attemptsMade = 1
        /\ statusOf(ledger, EventOf(j)) = "ROUTED"
        /\ routeOk[EventOf(j)] = 1

\* C20: after the shutdown signal no job becomes active, and once the queues
\* are closed (and MongoDB and Redis after them) no attempt is in flight and no
\* 'failed' handler is still between its start and its DLQ entry.
C20_GracefulShutdown ==
    /\ [][down # "running" =>
             \A j \in Indices(jobs) : jobs'[j].state = "active" => jobs[j].state = "active"]_vars
    /\ [](down \in {"queuesClosed", "mongoClosed", "exited"} =>
             \A j \in Indices(jobs) :
                 jobs[j].state # "active" /\ jobs[j].h \in {"none", "done"})

\* C21: in every reachable state at most Concurrency attempts are in progress,
\* also while further jobs are waiting.
C21_ConcurrencyCap == Cardinality(ActiveJobs) <= Concurrency

C21_Witness ==
    LET WaitingJobs == {j \in Indices(jobs) : jobs[j].state = "waiting"}
    IN
               Cardinality(ActiveJobs) = Concurrency /\ WaitingJobs # {}

\* C22: in every window of the limiter, which opens with the first attempt
\* started after the previous window has run out and lasts RateDuration, at most
\* MaxRate attempts are started, however many slots the concurrency leaves free;
\* the windows do not overlap.
C22_LimiterWindow ==
    LET StartsOfWindow(w) == {k \in Indices(rate.starts) : rate.starts[k].w = w}
    IN
    \A k \in Indices(rate.starts) :
        /\ Cardinality(StartsOfWindow(rate.starts[k].w)) <= MaxRate
        /\ rate.starts[k].w <= rate.starts[k].t
        /\ rate.starts[k].t < rate.starts[k].w + RateDuration
        /\ \A k2 \in Indices(rate.starts) :
              rate.starts[k2].w > rate.starts[k].w
                 => rate.starts[k2].w >= rate.starts[k].w + RateDuration

C22_Witness ==
    LET StartsOfWindow(w) == {k \in Indices(rate.starts) : rate.starts[k].w = w}
    IN
    /\ Len(rate.starts) = 4
    /\ Cardinality(StartsOfWindow(0)) = MaxRate
    /\ Cardinality(StartsOfWindow(RateDuration)) = MaxRate
    /\ rateLimited(rate) /\ rate.active < Concurrency

\* C23: a step in which the attempt of one job throws, or its 'failed' handler
\* rejects, changes that job only and no ledger row; no step of a job changes
\* another job or a ledger row of another event; and whatever happens to the
\* other job, also when it stays suspended in the Routing Collaborator call for
\* ever, a waiting job is eventually leased and an attempt that is not itself
\* waiting for the Routing Collaborator eventually ends.
C23_Isolation ==
    /\ [][LET Throws(j) ==
                  \/ FailedAttempt(j)
                  \/ jobs[j].h \in {"markFailed", "addToDLQ"} /\ jobs'[j].h = "done" /\ dlq' = dlq
              OthersUntouched(j) ==
                  /\ \A k \in Indices(jobs) \ {j} : jobs'[k] = jobs[k]
                  /\ \A e \in LedgerEventIds \ {EventOf(j)} :
                        /\ Rows(ledger', e) = Rows(ledger, e)
                        /\ \A i \in Rows(ledger, e) : ledger'[i] = ledger[i]
          IN
          /\ \E j \in Indices(jobs) : OthersUntouched(j)
          /\ \A j \in Indices(jobs) : Throws(j) => OthersUntouched(j) /\ ledger' = ledger]_vars
    /\ \A j \in 1..2 :
          /\ (jobs[j].state = "waiting") ~> (jobs[j].state = "active")
          /\ (jobs[j].state = "active") ~> (jobs[j].state # "active" \/ jobs[j].pc = "route")

C23_Witness ==
    /\ jobs[1].state = "active" /\ jobs[1].pc = "route"
    /\ jobs[2].state = "failed" /\ jobs[2].h = "done" /\ jobs[2].err = LedgerError
    /\ statusOf(ledger, "e1") = "ROUTING_PENDING"
    /\ statusOf(ledger, "e2") = "FAILED"

\* C24: a row of the ledger exists only for an event of which a worker has
\* started an attempt, and until then the status query answers not found; a step
\* that changes the ledger is a step of a worker's attempt or of its 'failed'
\* handler, never ingestion or replay; and no step removes a row or changes the
\* event a row belongs to.
C24_RowOnlyAfterLease ==
    /\ [](LET Started(j) == jobs[j].state # "waiting" \/ jobs[j].attemptsMade > 0
          IN  \A e \in EventIds :
                 /\ eventExists(ledger, e) => \E j \in JobsOf(e) : Started(j)
                 /\ (\A j \in JobsOf(e) : ~Started(j)) => getEventStatus(ledger, e) = 404)
    /\ [][LET WorkerWrites(j) ==
                  \/ jobs[j].state = "active" /\ jobs[j].pc \in {"create", "incr", "markRouted"}
                        /\ jobs'[j].pc # jobs[j].pc
                  \/ jobs[j].h = "markFailed" /\ jobs'[j].h = "addToDLQ"
          IN
          /\ ledger' # ledger => \E j \in Indices(jobs) : WorkerWrites(j)
          /\ Len(ledger') >= Len(ledger)
          /\ \A i \in Indices(ledger) : ledger'[i].eventId = ledger[i].eventId]_vars

C24_Witness ==
    /\ Len(ledger) = 1 /\ ledger[1].attempts = 0
    /\ getEventStatus(ledger, "e1") = 200
    /\ \E j \in Indices(jobs) : jobs[j].state = "active" /\ jobs[j].pc = "incr"
                                  /\ jobs[j].attemptsMade = 0

\* the attempts the ledger has counted for an event
AttemptsOf(l, e) == IF findOne(l, e) = 0 THEN 0 ELSE l[findOne(l, e)].attempts

\* the attempt of job j ends in this step, by return or by throw
AttemptEnds(j) == jobs[j].state = "active" /\ jobs'[j].state # "active"

\* the step in which processEvent of job j returns at the idempotent skip
SkipStep(j) ==
    /\ jobs[j].pc = "getById" /\ statusOf(ledger, EventOf(j)) = "ROUTED"
    /\ jobs'[j].state = "completed" /\ ledger' = ledger

\* C25 as stated: every attempt that ends has incremented Event.attempts of its
\* event, by exactly one, and Event.attempts never decreases.
C25_EveryLeaseIncrements ==
    [][LET \* the step in which incrementEventAttempts of job j returns
           IncrementStep(j) == jobs[j].pc = "incr" /\ jobs'[j].pc = "route"
           \* processEvent of job j is past its await incrementEventAttempts
           IncrementDone(j) == jobs[j].pc \in {"route", "markRouted"}
           \* attempts rises by exactly one in the increment step of an attempt, is changed
           \* by no other step and never falls
           AttemptsBookkeeping ==
               /\ \A j \in Indices(jobs) :
                     IncrementStep(j) => AttemptsOf(ledger', EventOf(j)) = AttemptsOf(ledger, EventOf(j)) + 1
               /\ \A e \in EventIds :
                     /\ AttemptsOf(ledger', e) >= AttemptsOf(ledger, e)
                     /\ AttemptsOf(ledger', e) # AttemptsOf(ledger, e)
                            => \E j \in JobsOf(e) : IncrementStep(j)
       IN
       /\ \A j \in Indices(jobs) : AttemptEnds(j) => IncrementDone(j)
       /\ AttemptsBookkeeping]_vars

\* C25 amended: every attempt that ends has incremented Event.attempts of its
\* event, by exactly one, unless it ends at the idempotent skip, which returns
\* for a ROUTED row before the increment and leaves the ledger as it is; and
\* Event.attempts never decreases.
C25_LeaseIncrementsUnlessSkipped ==
    [][LET \* the step in which incrementEventAttempts of job j returns
           IncrementStep(j) == jobs[j].pc = "incr" /\ jobs'[j].pc = "route"
           \* processEvent of job j is past its await incrementEventAttempts
           IncrementDone(j) == jobs[j].pc \in {"route", "markRouted"}
           \* attempts rises by exactly one in the increment step of an attempt, is changed
           \* by no other step and never falls
           AttemptsBookkeeping ==
               /\ \A j \in Indices(jobs) :
                     IncrementStep(j) => AttemptsOf(ledger', EventOf(j)) = AttemptsOf(ledger, EventOf(j)) + 1
               /\ \A e \in EventIds :
                     /\ AttemptsOf(ledger', e) >= AttemptsOf(ledger, e)
                     /\ AttemptsOf(ledger', e) # AttemptsOf(ledger, e)
                            => \E j \in JobsOf(e) : IncrementStep(j)
       IN
       /\ \A j \in Indices(jobs) : AttemptEnds(j) => (IncrementDone(j) \/ SkipStep(j))
       /\ AttemptsBookkeeping]_vars

C25_Witness ==
    /\ AttemptsOf(ledger, "e1") = 2
    /\ \E j \in Indices(jobs) :
          /\ jobs[j].state = "active" /\ jobs[j].pc = "getById" /\ jobs[j].attemptsMade = 0
          /\ statusOf(ledger, EventOf(j)) = "ROUTED"

\* C26: in every reachable state a row whose processedAt is set has status
\* ROUTED.
C26_ProcessedAtOnlyRouted ==
    \A i \in Indices(ledger) : ledger[i].processedAt # NoValue => ledger[i].status = "ROUTED"

\* C27: a step that changes the error of a row is the markEventFailed of a
\* 'failed' handler for that event and leaves the row FAILED; a row is created
\* without an error; the creation of a row, the attempt increment and the
\* transition to ROUTED leave the error of every row as it was.
C27_ErrorOnlyTowardFailed ==
    [][LET \* the step in which markEventFailed of the 'failed' handler of job j returns
           MarkFailedStep(j) == jobs[j].h = "markFailed" /\ jobs'[j].h = "addToDLQ"
       IN
       /\ \A i \in Indices(ledger) :
             ledger'[i].error # ledger[i].error
                => /\ ledger'[i].status = "FAILED"
                   /\ \E j \in JobsOf(ledger[i].eventId) :
                         MarkFailedStep(j) /\ ledger'[i].error = jobs[j].err
       /\ \A i \in Indices(ledger') \ Indices(ledger) : ledger'[i].error = NoValue
       /\ \A j \in Indices(jobs) :
             (jobs[j].pc \in {"create", "incr", "markRouted"} /\ jobs'[j].pc # jobs[j].pc)
                => \A i \in Indices(ledger) : ledger'[i].error = ledger[i].error]_vars

C27_Witness ==
    /\ Len(ledger) = 1
    /\ ledger[1].status = "ROUTED" /\ ledger[1].error = RoutingError
    /\ ledger[1].attempts > MaxAttempts

\* C28: the DLQ grows by one entry at a time, in the addToDLQ step of the 'failed'
\* handler of a failed job whose attemptsMade is the configured maximum and which
\* has no entry yet; an entry changes only by being removed, in the remove step
\* of a replayDLQJobs call that found it; every other step leaves the DLQ as it
\* is.
C28_DLQWriters ==
    [][LET EntriesOf(j) == {d \in Indices(dlq) : dlq[d].job = j}
           \* the step in which addToDLQ of the 'failed' handler of job j returns
           AddToDLQStep(j) == jobs[j].h = "addToDLQ" /\ jobs'[j].h = "done"
           \* the step in which a replayDLQJobs call removes entry d
           ReplayRemoveStep(r, d) ==
               /\ replays[r].pc = "remove" /\ replays'[r].i = replays[r].i + 1
               /\ replays[r].snap[replays[r].i] = d
       IN
       /\ Len(dlq') \in {Len(dlq), Len(dlq) + 1}
       /\ Len(dlq') = Len(dlq) + 1
             => \E j \in Indices(jobs) :
                   /\ AddToDLQStep(j)
                   /\ jobs[j].state = "failed" /\ jobs[j].attemptsMade = MaxAttempts
                   /\ EntriesOf(j) = {}
                   /\ dlq'[Len(dlq')] = dlqEntry(j, jobs[j], jobs[j].err)
       /\ \A d \in Indices(dlq) :
             dlq'[d] # dlq[d]
                => /\ dlq'[d] = [dlq[d] EXCEPT !.state = "removed"]
                   /\ \E r \in 1..MaxReplays : ReplayRemoveStep(r, d)]_vars

C28_Witness ==
    /\ Len(dlq) = 2
    /\ dlq[1].state = "removed" /\ dlq[2].state = "waiting"
    /\ dlq[1].job # dlq[2].job

\* C29: the job an ingestion stores carries the request's eventId, type and
\* payload and the correlation id the request came with or was given by the
\* middleware; the data of a job never changes, through attempts, retries and
\* removal; a DeadLetterEntry is created with the data of the exhausted job as
\* originalJob and keeps it; and the job a replay adds carries exactly the
\* originalJob of the entry it replays.
C29_DataCarried ==
    [][LET NewJob == Len(jobs') = Len(jobs) + 1
       IN
       /\ (NewJob /\ jobs'[Len(jobs')].name = "process-event")
             => jobs'[Len(jobs')].data =
                   [eventId |-> answer'.req.eventId, type |-> answer'.req.type,
                    payload |-> answer'.req.payload,
                    correlationId |-> correlationIdOf(answer'.req)]
       /\ \A j \in Indices(jobs) : jobs'[j].data = jobs[j].data
       /\ Len(dlq') > Len(dlq)
             => dlq'[Len(dlq')].originalJob = jobs[dlq'[Len(dlq')].job].data
       /\ \A d \in Indices(dlq) : dlq'[d].originalJob = dlq[d].originalJob
       /\ (NewJob /\ jobs'[Len(jobs')].name = "retry")
             => /\ replays[1].pc = "add"
                /\ jobs'[Len(jobs')].data = dlq[replays[1].snap[replays[1].i]].originalJob]_vars

C29_Witness ==
    /\ \E j \in Indices(jobs) :
          /\ jobs[j].name = "retry"
          /\ jobs[j].data = JobData("e1", "ORDER_PAID", "p2", "uuid")
    /\ \E j \in Indices(jobs) :
          /\ jobs[j].name = "process-event" /\ jobs[j].state = "waiting"
          /\ jobs[j].data = JobData("e1", "ORDER_CREATED", "p1", "c1")
    /\ dlq[1].state = "removed"

\* C30: no step of a replayDLQJobs call changes the ledger: it reads the DLQ,
\* adds to the main queue and removes from the DLQ; so when a call returns, an
\* event of an entry it replayed whose row was FAILED before the step still has a
\* FAILED row after it.
C30_ReplayLeavesLedger ==
    [][LET \* a step of a replayDLQJobs call
           ReplayStep(r) == replays'[r] # replays[r]
       IN
       \A r \in 1..MaxReplays :
          ReplayStep(r)
             => /\ ledger' = ledger
                /\ UNCHANGED <<created, routeOk, toRouted, toFailed>>
                /\ \A e \in EventIds :
                      statusOf(ledger, e) = "FAILED" => statusOf(ledger', e) = "FAILED"]_vars

C30_Witness ==
    /\ replays[1].pc = "done" /\ replays[1].count = 1
    /\ statusOf(ledger, "e1") = "FAILED"
    /\ \E j \in Indices(jobs) : jobs[j].name = "retry" /\ jobs[j].state = "waiting"
    /\ dlq[1].state = "removed"

\* C31: a failed attempt of a job counts as one attempt; while the count is below
\* MaxAttempts the job is rescheduled with a delay, after which it waits to be
\* taken again, and when the count reaches MaxAttempts the job is failed; only a
\* job with attempts left is taken, and a failed job is never taken again: it
\* stays failed until the queue drops it.  So a job whose attempts all fail is
\* attempted exactly MaxAttempts times; a further attempt at the event needs a
\* new job.
C31_RetriedUntilExhausted ==
    [][LET \* the step in which the worker takes job j
           LeaseStep(j) == jobs[j].state = "waiting" /\ jobs'[j].state = "active"
       IN
       \A j \in Indices(jobs) :
          /\ FailedAttempt(j)
                => /\ jobs[j].attemptsMade < MaxAttempts
                   /\ jobs'[j].state = IF jobs'[j].attemptsMade < MaxAttempts
                                        THEN "delayed" ELSE "failed"
          /\ LeaseStep(j) => jobs[j].attemptsMade < MaxAttempts
          /\ jobs[j].state = "delayed" => jobs'[j].state \in {"delayed", "waiting"}
          /\ jobs[j].state = "failed"
                => /\ jobs[j].attemptsMade = MaxAttempts
                   /\ jobs'[j].state \in {"failed", "removed"}
          /\ jobs[j].state = "removed" => jobs'[j].state = "removed"
          /\ (jobs'[j].attemptsMade # jobs[j].attemptsMade /\ jobs'[j].state # "removed")
                => FailedAttempt(j)]_vars

C31_Witness ==
    /\ Len(jobs) = 1
    /\ jobs[1].state = "failed" /\ jobs[1].attemptsMade = MaxAttempts
    /\ AttemptsOf(ledger, "e1") = MaxAttempts
    /\ routeOk["e1"] = 0

\* C32: when the signature is generateHMAC of the object under the secret and
\* the secret is not empty, validateHMAC answers true, for the object, for its
\* JSON string and for the buffer of that string.
C32_RoundTrip ==
    (/\ hmac.result \notin {"none", "signed"}
     /\ hmac.secret # ""
     /\ hmac.signature = generateHMAC(hmac.object, hmac.secret))
        => hmac.result = "true"

C32_Witness ==
    /\ hmac.result = "true" /\ hmac.form = "string" /\ hmac.object = "tampered"
    /\ hmac.secret = "k2"
    /\ hmac.signature = generateHMAC("tampered", "k2")

\* C33: validateHMAC answers false, and does not throw, when the signature is
\* empty, the secret is empty, the signature has not the length of a digest in
\* hex, or the signature is not generateHMAC of the payload under the secret.
C33_RejectsInvalid ==
    hmac.result \notin {"none", "signed"}
        => /\ hmac.result \in {"true", "false"}
           /\ (\/ hmac.signature = <<>>
               \/ hmac.secret = ""
               \/ Len(hmac.signature) # 2 * DigestBytes
               \/ hmac.signature # generateHMAC(hmac.object, hmac.secret))
                  => hmac.result = "false"

C35_RedeliveredIsSkipped ==
    /\ \A j \in 1..MaxJobs :
          (j \in Indices(jobs) /\ Stalled(j))
             ~> (j \in Indices(jobs) /\ jobs[j].state \in {"completed", "removed"})
    /\ [][down # "running"
             => /\ ledger' = ledger
                /\ routeOk' = routeOk
                /\ \A j \in Indices(jobs) :
                      (AttemptEnds(j) /\ ~Stalled(j)) => SkipStep(j)]_vars

C35_Witness ==
    /\ down = "restarted"
    /\ \E j \in Indices(jobs) :
          /\ jobs[j].state = "completed" /\ jobs[j].attemptsMade = 0
          /\ routeOk[EventOf(j)] = 1 /\ toRouted[EventOf(j)] = 1
          /\ AttemptsOf(ledger, EventOf(j)) = 1
          /\ statusOf(ledger, EventOf(j)) = "ROUTED"
    /\ Len(jobs) = 1

\* C36: no two jobs of the main queue were made from the same DLQ entry.
C36_ReplayedAtMostOnce ==
    LET \* the jobs the replayDLQJobs calls in progress have added, each with the DLQ
        \* entry it was made from
        Replayed ==
            UNION {{[call |-> r, job |-> replays[r].added[k], entry |-> replays[r].from[k]] :
                       k \in Indices(replays[r].added)} : r \in 1..MaxReplays}
    IN
    \A a, b \in Replayed : a.entry = b.entry => a.job = b.job

\* C37: a replayDLQJobs call throws only when getJobs rejects, before any entry
\* is touched; a rejection of add or remove for one entry does not end the call:
\* when it returns it has been through every entry it found, each of them added
\* again or failed, and the count it returns is the number of entries it both
\* added again and removed.
C37_ReplayIsolatesFailures ==
    LET Range(seq) == {seq[k] : k \in Indices(seq)}
    IN
    \A r \in 1..MaxReplays :
        LET call == replays[r]
        IN  /\ call.pc = "thrown"
                  => call.snap = <<>> /\ call.added = <<>> /\ call.failed = <<>>
            /\ call.pc = "done"
                  => /\ call.i = Len(call.snap) + 1
                     /\ \A k \in Indices(call.snap) :
                           call.snap[k] \in Range(call.from) \cup Range(call.failed)
                     /\ call.count =
                           Cardinality({k \in Indices(call.snap) :
                                           /\ call.snap[k] \in Range(call.from)
                                           /\ call.snap[k] \in Range(call.removed)})

C37_Witness ==
    /\ replays[1].pc = "done" /\ replays[1].snap = <<1, 2>>
    /\ replays[1].failed = <<1>> /\ replays[1].from = <<2>> /\ replays[1].removed = <<2>>
    /\ replays[1].count = 1
    /\ dlq[1].state = "waiting" /\ dlq[2].state = "removed"

\* C38: in every reachable state an event whose row is FAILED has a
\* DeadLetterEntry queued in the DLQ or an outstanding job in the main queue.
C38_FailedRecoverable ==
    LET \* the event has an entry queued in the DLQ
        HasEntry(e) == \E d \in Indices(dlq) : dlq[d].state = "waiting" /\ dlq[d].originalJob.eventId = e
        \* the event has a job waiting, active or delayed in the main queue
        HasOutstandingJob(e) == \E j \in JobsOf(e) : jobs[j].state \in Outstanding
    IN
    \A e \in EventIds :
        statusOf(ledger, e) = "FAILED" => (HasEntry(e) \/ HasOutstandingJob(e))

\* C39: in every reachable state an event whose row is ROUTED has error null,
\* also when it was FAILED, replayed and then routed.
C39_RoutedHasNoError ==
    \A i \in Indices(ledger) : ledger[i].status = "ROUTED" => ledger[i].error = NoValue

====
